---- MODULE Spec2Model ----
(***************************************************************************)
(* Model of the screen-state extraction pipeline of AI-Desktop-Pet         *)
(* (backend/capture.py, backend/ui_inspector.py, backend/detector.py,      *)
(* backend/analyzer.py).  Every analysis call is synchronous and keeps no  *)
(* state of its own, so an orchestrator call is one action: its inputs are *)
(* the arguments and the outcomes of the collaborators (window registry,   *)
(* pixel source, recognition engine, accessibility engine), and the state  *)
(* it leaves is the value it returned together with a record of what it    *)
(* did on the way.                                                         *)
(***************************************************************************)
EXTENDS Integers, Sequences, FiniteSets, TLC

VARIABLES
    desktop,      \* the window registry, in OS enumeration order
    uiaAvailable, \* PYWINAUTO_AVAILABLE and self.desktop (set at construction)
    uiaTree,      \* accessibility tree of the analysed window, in pre-order
    ocrFull,      \* what detect_text returns for the whole window image
    ocrB,         \* what detect_text returns for the crop (50,0,width-200,40)
    ocrC,         \* what detect_text returns for the crop (80,5,width-150,35)
    detector,     \* the ContentDetector: its engine setting and its reader
    pc,           \* "idle" before the call, "done" after it
    call,         \* the operation called and its arguments
    result,       \* the value the call returned (NoResult if none)
    raised,       \* TRUE when an exception escaped the call
    obs           \* what the call did on the way (locals and collaborator calls)

vars == <<desktop, uiaAvailable, uiaTree, ocrFull, ocrB, ocrC, detector,
          pc, call, result, raised, obs>>

world == <<desktop, uiaAvailable, uiaTree, ocrFull, ocrB, ocrC, detector>>

----------------------------------------------------------------------------
(* Bounds of the model *)

MaxWindows == 2
MaxDets == 2
MaxBulk == 17
MaxMonitors == 2
MaxContours == 2

----------------------------------------------------------------------------
(* Python values *)

None == "None"
NoHwnd == 0
Unbound == "<unbound local>"
Image == "<PIL.Image>"
Now == "<time.time()>"
NoResult == <<>>

Min(a, b) == IF a < b THEN a ELSE b

Take(s, n) == SubSeq(s, 1, Min(n, Len(s)))

RECURSIVE Rep(_, _)
Rep(c, n) == IF n = 0 THEN "" ELSE c \o Rep(c, n - 1)

(* str.startswith *)
StartsWith(s, p) == Len(s) >= Len(p) /\ SubSeq(s, 1, Len(p)) = p

(* str.strip(): leading and trailing whitespace removed *)
RECURSIVE LStrip(_)
LStrip(s) ==
    IF Len(s) > 0 /\ SubSeq(s, 1, 1) = " " THEN LStrip(SubSeq(s, 2, Len(s))) ELSE s

RECURSIVE RStrip(_)
RStrip(s) ==
    IF Len(s) > 0 /\ SubSeq(s, Len(s), Len(s)) = " "
    THEN RStrip(SubSeq(s, 1, Len(s) - 1)) ELSE s

Strip(s) == RStrip(LStrip(s))

(* str.lower() *)
LowerMap ==
    ("A" :> "a") @@ ("B" :> "b") @@ ("C" :> "c") @@ ("D" :> "d") @@ ("E" :> "e") @@ ("F" :> "f")
    @@ ("G" :> "g") @@ ("H" :> "h") @@ ("I" :> "i") @@ ("J" :> "j") @@ ("K" :> "k") @@ ("L" :> "l")
    @@ ("M" :> "m") @@ ("N" :> "n") @@ ("O" :> "o") @@ ("P" :> "p") @@ ("Q" :> "q") @@ ("R" :> "r")
    @@ ("S" :> "s") @@ ("T" :> "t") @@ ("U" :> "u") @@ ("V" :> "v") @@ ("W" :> "w") @@ ("X" :> "x")
    @@ ("Y" :> "y") @@ ("Z" :> "z")

LowerChar(c) == IF c \in DOMAIN LowerMap THEN LowerMap[c] ELSE c

RECURSIVE Lower(_)
Lower(s) ==
    IF Len(s) = 0 THEN "" ELSE LowerChar(SubSeq(s, 1, 1)) \o Lower(SubSeq(s, 2, Len(s)))

(* a in b, for strings *)
InStr(a, b) ==
    \E i \in 1..(Len(b) - Len(a) + 1) : SubSeq(b, i, i + Len(a) - 1) = a

(* list.sort(key=lambda x: x['bbox'][0]): stable, ascending *)
RECURSIVE InsertByX(_, _)
InsertByX(sorted, d) ==
    IF sorted = <<>> THEN <<d>>
    ELSE IF sorted[Len(sorted)].bbox[1] <= d.bbox[1] THEN Append(sorted, d)
    ELSE Append(InsertByX(SubSeq(sorted, 1, Len(sorted) - 1), d), sorted[Len(sorted)])

RECURSIVE SortLoop(_, _)
SortLoop(dets, sorted) ==
    IF dets = <<>> THEN sorted ELSE SortLoop(Tail(dets), InsertByX(sorted, Head(dets)))

SortByX(dets) == SortLoop(dets, <<>>)

----------------------------------------------------------------------------
(* analyzer.py: ScreenAnalyzer._extract_tabs_with_ocr *)

TabCap == 15
TabGap == 30
MinTabLen == 2
MaxTabLen == 60
FirstLastX == -100

StopSet == {"×", "+", "...", "New Tab", "Google", "Chrome"}

(* mutant: a candidate exactly 30px from the last one passes *)
TabAccepted_GapInclusive(text, x_pos, last_x) ==
    /\ text # ""
    /\ MinTabLen < Len(text) /\ Len(text) < MaxTabLen
    /\ x_pos - last_x >= TabGap
    /\ text \notin StopSet
    /\ ~StartsWith(text, "http")
    /\ ~StartsWith(text, "www")

(* mutant: the stop set is not consulted *)
TabAccepted_NoStopSet(text, x_pos, last_x) ==
    /\ text # ""
    /\ MinTabLen < Len(text) /\ Len(text) < MaxTabLen
    /\ x_pos - last_x > TabGap
    /\ ~StartsWith(text, "http")
    /\ ~StartsWith(text, "www")

(* the condition of lines 64-69, on the stripped text *)
TabAccepted(text, x_pos, last_x) ==
    /\ text # ""
    /\ MinTabLen < Len(text) /\ Len(text) < MaxTabLen
    /\ x_pos - last_x > TabGap
    /\ text \notin StopSet
    /\ ~StartsWith(text, "http")
    /\ ~StartsWith(text, "www")

(* the loop of lines 53-72 over the sorted detections: tabs and last_x are
   the code's locals, taken the indices of the detections it appended *)
RECURSIVE StageBLoop(_, _, _)
StageBLoop(dets, i, acc) ==
    IF i > Len(dets) THEN acc
    ELSE LET text == Strip(dets[i].text)
             x_pos == dets[i].bbox[1]
         IN  IF TabAccepted(text, x_pos, acc.last_x)
             THEN StageBLoop(dets, i + 1,
                      [tabs |-> Append(acc.tabs, text), last_x |-> x_pos,
                       taken |-> Append(acc.taken, i)])
             ELSE StageBLoop(dets, i + 1, acc)

StageB(dets) ==
    StageBLoop(SortByX(dets), 1, [tabs |-> <<>>, last_x |-> FirstLastX, taken |-> <<>>])

(* the loop of lines 85-88 *)
StageCAccepted(text) == text # "" /\ MinTabLen < Len(text) /\ Len(text) < MaxTabLen

RECURSIVE StageCLoop(_, _, _)
StageCLoop(dets, i, tabs) ==
    IF i > Len(dets) THEN tabs
    ELSE LET text == Strip(dets[i].text)
         IN  IF StageCAccepted(text)
             THEN StageCLoop(dets, i + 1, Append(tabs, text))
             ELSE StageCLoop(dets, i + 1, tabs)

StageC(dets) == StageCLoop(SortByX(dets), 1, <<>>)

(* mutant: the second region is tried whatever Stage B found *)
NeedStageC_Always(tabs) == TRUE

(* line 75 *)
NeedStageC(tabs) == Len(tabs) = 0

(* mutant: the slice is missing *)
CapTabs_Uncapped(tabs) == tabs

(* line 90 *)
CapTabs(tabs) == Take(tabs, TabCap)

NoOcr == [ran |-> FALSE, ranB |-> FALSE, ranC |-> FALSE, sortedB |-> <<>>,
          taken |-> <<>>, tabsB |-> <<>>, tabs |-> <<>>]

(* window_info: what get_window_info(hwnd) returned; failAt: where, if
   anywhere, the cropping or the saving of the debug image throws; detsB,
   detsC: the engine's detections for the two crops *)
extract_tabs_with_ocr(window_info, failAt, detsB, detsC) ==
    LET entered == [NoOcr EXCEPT !.ran = TRUE] IN
    IF "bbox" \notin DOMAIN window_info \/ failAt = "B"
    THEN entered
    ELSE LET b == StageB(detsB)
             afterB == [entered EXCEPT !.ranB = TRUE, !.sortedB = SortByX(detsB),
                                       !.taken = b.taken, !.tabsB = b.tabs]
         IN  IF NeedStageC(b.tabs)
             THEN IF failAt = "C" THEN afterB
                  ELSE [afterB EXCEPT !.ranC = TRUE, !.tabs = CapTabs(StageC(detsC))]
             ELSE [afterB EXCEPT !.tabs = CapTabs(b.tabs)]

----------------------------------------------------------------------------
(* capture.py: ScreenCapture *)

Width(bbox) == bbox[3] - bbox[1]
Height(bbox) == bbox[4] - bbox[2]

RECURSIVE Titles(_)
Titles(windows) ==
    IF windows = <<>> THEN <<>> ELSE <<Head(windows).title>> \o Titles(Tail(windows))

(* mutant: the title test is missing *)
Catalogued_Untitled(w) == w.visible

(* EnumWindows callback of get_all_windows: visible windows with a title *)
Catalogued(w) == w.visible /\ w.title # ""

(* lines 29-34: what the callback appends for a window *)
WindowEntry(w) == [hwnd |-> w.hwnd, title |-> w.title, bbox |-> w.bbox, class |-> w.class]

(* mutant: the visibility test is missing *)
Listed_Invisible(wins, gone) ==
    LET kept == SelectSeq(wins, LAMBDA w : w.title # "" /\ w.hwnd \notin gone)
    IN  [i \in DOMAIN kept |-> WindowEntry(kept[i])]

(* the enumeration of get_all_windows.  gone: the windows that close during
   their own callback, after the title was read; GetWindowRect or
   GetClassName then raises and the except of line 36 skips the window *)
Listed(wins, gone) ==
    LET kept == SelectSeq(wins, LAMBDA w : Catalogued(w) /\ w.hwnd \notin gone)
    IN  [i \in DOMAIN kept |-> WindowEntry(kept[i])]

get_all_windows(wins) == Listed(wins, {})

(* mutant: every window whose title matches, visible or not *)
FindMatches_AnyWindow(w, title_substring) == InStr(title_substring, Lower(w.title))

(* EnumWindows callback of find_window *)
FindMatches(w, title_substring) == w.visible /\ InStr(title_substring, Lower(w.title))

find_window(wins, title_substring) ==
    LET sub == Lower(title_substring)
        results == SelectSeq(wins, LAMBDA w : FindMatches(w, sub))
    IN  IF results # <<>> THEN results[1].hwnd ELSE NoHwnd

WindowOf(wins, hwnd) == CHOOSE w \in {wins[i] : i \in DOMAIN wins} : w.hwnd = hwnd

(* alive: GetWindowRect(hwnd) succeeds; grabOk: mss grab and the conversion
   to an image succeed *)
capture_window(wins, hwnd, alive, grabOk) ==
    IF ~alive THEN None
    ELSE LET bbox == WindowOf(wins, hwnd).bbox
         IN  IF Width(bbox) <= 0 \/ Height(bbox) <= 0 THEN None
             ELSE IF grabOk THEN Image ELSE None

(* capture_full_screen, lines 81-84: self.sct.monitors has entry 0 for the
   whole desktop and one entry per monitor; a subscript past the end raises
   IndexError, a failing grab raises the error of mss.  Nothing catches
   either. *)
ScreenSize == <<1920, 1080>>

capture_full_screen(monitor_num, monitors, grabOk) ==
    IF monitor_num > monitors \/ ~grabOk
    THEN [raised |-> TRUE, screenshot |-> Unbound, size |-> <<>>]
    ELSE [raised |-> FALSE, screenshot |-> Image, size |-> ScreenSize]

----------------------------------------------------------------------------
(* ui_inspector.py: UIInspector *)

(* mutant: an invalid handle yields the fields read before the failure *)
get_window_info_Partial(wins, hwnd, alive, procOk) ==
    IF ~alive THEN [hwnd |-> hwnd, title |-> ""]
    ELSE LET w == WindowOf(wins, hwnd)
         IN  [hwnd |-> hwnd, title |-> w.title, class |-> w.class, bbox |-> w.bbox,
              pid |-> w.pid,
              process_name |-> IF procOk THEN w.process ELSE "Unknown",
              exe_path |-> IF procOk THEN w.exe ELSE "Unknown",
              visible |-> w.visible, enabled |-> w.enabled]

(* alive: the win32gui calls on hwnd succeed; procOk: psutil can read the
   process's name and path *)
get_window_info(wins, hwnd, alive, procOk) ==
    IF ~alive THEN [error |-> "Invalid window handle"]
    ELSE LET w == WindowOf(wins, hwnd)
         IN  [hwnd |-> hwnd, title |-> w.title, class |-> w.class, bbox |-> w.bbox,
              pid |-> w.pid,
              process_name |-> IF procOk THEN w.process ELSE "Unknown",
              exe_path |-> IF procOk THEN w.exe ELSE "Unknown",
              visible |-> w.visible, enabled |-> w.enabled]

(* Python's None where a record is expected *)
Absent == [absent |-> TRUE]

(* get_focused_window, lines 153-159.  fg is the foreground window as the
   call meets it: whether GetForegroundWindow raises, the handle it returns
   (NoHwnd with no foreground window) and the outcomes of get_window_info *)
get_focused_window(wins, fg) ==
    IF fg.raises THEN Absent
    ELSE get_window_info(wins, fg.hwnd, fg.alive, fg.procOk)

(* list_all_windows, lines 161-173: the callback appends what get_window_info
   returns, which for a window gone since its title was read is the error
   record *)
list_all_windows(wins, gone) ==
    LET kept == SelectSeq(wins, Catalogued)
    IN  [i \in DOMAIN kept |->
            get_window_info(wins, kept[i].hwnd, kept[i].hwnd \notin gone, TRUE)]

TabSearchDepth == 10
MinTabNameLen == 3
USE_OCR == "__USE_OCR__"

(* The accessibility graph of a window: nodes[1] is the window's own element;
   a node lists its children by number, and fails names the reads of the node
   that raise: "info" (element_info and its name and control_type), "rectangle",
   "state" (is_enabled, is_visible) and "children". *)
GraphNode(control_type, name, children, fails) ==
    [control_type |-> control_type, name |-> name, children |-> children, fails |-> fails]

Ascending(S) ==
    [n \in 1..Cardinality(S) |-> CHOOSE i \in S : Cardinality({j \in S : j < i}) = n - 1]

(* the children of node i of a tree given in pre-order with depths *)
ChildrenOf(flat, i) ==
    Ascending({j \in DOMAIN flat :
                  /\ j > i
                  /\ flat[j].depth = flat[i].depth + 1
                  /\ \A k \in (i + 1)..(j - 1) : flat[k].depth > flat[i].depth})

TreeGraph(flat) ==
    [i \in DOMAIN flat |->
        GraphNode(flat[i].control_type, flat[i].name, ChildrenOf(flat, i), {})]

(* one call of a walk's inner function, as the walk leaves it behind: path is
   the child positions from the window's element down to the node *)
Visit(acc, e, path, depth, read, emitted, expanded) ==
    [acc EXCEPT !.visits = Append(@, [node |-> e, path |-> path, depth |-> depth,
                                      read |-> read, emitted |-> emitted,
                                      expanded |-> expanded])]

(* lines 199-205 of search_tabs, for one node *)
IsNewTab_Repeats(node, tabs) ==
    /\ InStr("tabitem", Lower(node.control_type))
    /\ node.name # ""
    /\ Len(node.name) > MinTabNameLen
    /\ ~StartsWith(node.name, "Active View")
    /\ ~StartsWith(node.name, "Tab content")

IsNewTab(node, tabs) ==
    /\ InStr("tabitem", Lower(node.control_type))
    /\ node.name # ""
    /\ \A i \in DOMAIN tabs : tabs[i] # node.name
    /\ Len(node.name) > MinTabNameLen
    /\ ~StartsWith(node.name, "Active View")
    /\ ~StartsWith(node.name, "Tab content")

(* search_tabs, lines 191-213: acc.tabs is the list the calls append to.  A
   node whose control type or name cannot be read is skipped with everything
   below it (line 212); a child list that cannot be read ends the node
   (line 210). *)
RECURSIVE search_tabs(_, _, _, _, _)
RECURSIVE SearchChildren(_, _, _, _, _, _)
search_tabs(g, e, path, depth, acc) ==
    IF depth > TabSearchDepth THEN Visit(acc, e, path, depth, FALSE, FALSE, FALSE)
    ELSE IF "info" \in g[e].fails THEN Visit(acc, e, path, depth, FALSE, FALSE, FALSE)
    ELSE LET isNew == IsNewTab(g[e], acc.tabs)
             a1 == IF isNew THEN [acc EXCEPT !.tabs = Append(@, g[e].name)] ELSE acc
             a2 == Visit(a1, e, path, depth, TRUE, isNew, TRUE)
         IN  IF "children" \in g[e].fails THEN a2
             ELSE SearchChildren(g, g[e].children, 1, path, depth + 1, a2)

SearchChildren(g, children, k, path, depth, acc) ==
    IF k > Len(children) THEN acc
    ELSE SearchChildren(g, children, k + 1, path, depth,
                        search_tabs(g, children[k], Append(path, k), depth, acc))

NoTabs == [tabs |-> <<>>, visits |-> <<>>]

(* Method 1 (lines 186-218): available is PYWINAUTO_AVAILABLE and
   self.desktop, alive whether desktop.window(handle=hwnd) resolves *)
TabWalk(available, alive, tree) ==
    IF available /\ alive THEN search_tabs(tree, 1, <<>>, 0, NoTabs) ELSE NoTabs

TreeTabs(available, alive, tree) == TabWalk(available, alive, tree).tabs

(* Method 2 (lines 221-234): rectOk is whether GetWindowRect(hwnd) and the
   crop succeed *)
ReturnsFlag(tabs, screenshot, rectOk) == Len(tabs) = 0 /\ screenshot # None /\ rectOk

get_browser_tabs(tabs, screenshot, rectOk) ==
    IF ReturnsFlag(tabs, screenshot, rectOk) THEN <<USE_OCR>> ELSE tabs

(* get_ui_tree, lines 66-120 *)
UiTreeDepth == 5

(* line 78, negated *)
WithinDepth_OneDeeper(depth, max_depth) == depth <= max_depth + 1

WithinDepth(depth, max_depth) == depth <= max_depth

(* line 98 *)
Emits_NamedOnly(name, control_type) == name # ""

Emits(name, control_type) == name # "" \/ control_type # "Unknown"

NodeBox == <<0, 0, 10, 10>>

(* lines 88-96 *)
BoxOf(node) == IF "rectangle" \in node.fails THEN <<0, 0, 0, 0>> ELSE NodeBox

(* lines 99-106 *)
UiElement(node, depth) ==
    [name |-> node.name, type |-> node.control_type, bbox |-> BoxOf(node),
     depth |-> depth, enabled |-> TRUE, visible |-> TRUE]

(* lines 112-113: what a node's reads raise ends with the node *)
Swallow_Reraise(outcome) == outcome

Swallow(outcome) == [outcome EXCEPT !.raised = FALSE]

(* traverse, lines 77-113: acc.elements is the list the calls append to.
   ReadNode is the body of the try of line 81; it raises when element_info
   raises, or when is_enabled or is_visible raises while the entry is built.
   TraverseChildren is the loop of lines 108-111, which an exception coming
   out of a child would end. *)
RECURSIVE traverse(_, _, _, _, _, _)
RECURSIVE ReadNode(_, _, _, _, _, _)
RECURSIVE TraverseChildren(_, _, _, _, _, _, _)
traverse(g, e, path, depth, max_depth, acc) ==
    IF ~WithinDepth(depth, max_depth)
    THEN [raised |-> FALSE, acc |-> Visit(acc, e, path, depth, FALSE, FALSE, FALSE)]
    ELSE Swallow(ReadNode(g, e, path, depth, max_depth, acc))

ReadNode(g, e, path, depth, max_depth, acc) ==
    LET node == g[e]
        emit == Emits(node.name, node.control_type)
    IN  IF "info" \in node.fails \/ (emit /\ "state" \in node.fails)
        THEN [raised |-> TRUE, acc |-> Visit(acc, e, path, depth, FALSE, FALSE, FALSE)]
        ELSE LET a1 == IF emit
                       THEN [acc EXCEPT !.elements = Append(@, UiElement(node, depth))]
                       ELSE acc
                 a2 == Visit(a1, e, path, depth, TRUE, emit, TRUE)
             IN  [raised |-> FALSE,
                  acc |-> IF "children" \in node.fails THEN a2
                          ELSE TraverseChildren(g, node.children, 1, path, depth + 1,
                                                max_depth, a2)]

TraverseChildren(g, children, k, path, depth, max_depth, acc) ==
    IF k > Len(children) THEN acc
    ELSE LET r == traverse(g, children[k], Append(path, k), depth, max_depth, acc)
         IN  IF r.raised THEN r.acc
             ELSE TraverseChildren(g, children, k + 1, path, depth, max_depth, r.acc)

NoElements == [elements |-> <<>>, visits |-> <<>>]

(* lines 68-75 and 115-120: nothing without the engine or the window *)
UiTreeWalk(available, alive, tree, max_depth) ==
    IF available /\ alive
    THEN traverse(tree, 1, <<>>, 0, max_depth, NoElements).acc
    ELSE NoElements

get_ui_tree(available, alive, tree, max_depth) ==
    UiTreeWalk(available, alive, tree, max_depth).elements

----------------------------------------------------------------------------
(* detector.py: ContentDetector.  For analyze_window the world variables
   ocrFull, ocrB, ocrC are what detect_text returns for the three images it
   hands over.  Confidences are held in hundredths (0.5 is 50). *)

RECURSIVE JoinTexts(_)
JoinTexts(dets) ==
    IF dets = <<>> THEN ""
    ELSE IF Len(dets) = 1 THEN dets[1].text
    ELSE dets[1].text \o " " \o JoinTexts(Tail(dets))

(* the values of ocr_engine: the three the constructor documents, and any
   other string *)
Engines == {"easyocr", "tesseract", "both", "other"}

(* __init__ (lines 42-65) under the import guards (lines 16-29): the reader
   exists only if an EasyOCR engine was asked for, the library imported and
   easyocr.Reader(...) did not raise (initOk) *)
Detector(ocr_engine, EASYOCR_AVAILABLE, initOk, TESSERACT_AVAILABLE) ==
    [ocr_engine |-> ocr_engine,
     easyocr_reader |-> ocr_engine \in {"easyocr", "both"} /\ EASYOCR_AVAILABLE /\ initOk,
     TESSERACT_AVAILABLE |-> TESSERACT_AVAILABLE]

MinOf(S) == CHOOSE x \in S : \A y \in S : x <= y
MaxOf(S) == CHOOSE x \in S : \A y \in S : x >= y

(* lines 79-89: the corner points of EasyOCR to [x1, y1, x2, y2] *)
QuadBox(quad) ==
    LET x_coords == {quad[k][1] : k \in DOMAIN quad}
        y_coords == {quad[k][2] : k \in DOMAIN quad}
    IN  <<MinOf(x_coords), MinOf(y_coords), MaxOf(x_coords), MaxOf(y_coords)>>

EasyDetection(r) ==
    [text |-> r.text, bbox |-> QuadBox(r.quad), confidence |-> r.confidence,
     engine |-> "easyocr"]

(* what a piece of code comes to: a value, or an exception on its way up *)
Ok(value) == [raised |-> FALSE, value |-> value]
Raise == [raised |-> TRUE, value |-> <<>>]

(* mutant: the except clause is missing *)
Catch_Reraise(outcome, fallback) == outcome

(* try: ... except Exception: return fallback *)
Catch(outcome, fallback) == IF outcome.raised THEN Ok(fallback) ELSE outcome

(* an image is modelled by what each engine does with it: image.easyocr and
   image.tesseract are records of raises (the engine call throws) and of the
   engine's raw output *)
(* lines 73-94, the body of the try *)
ReadText(image) ==
    IF image.easyocr.raises THEN Raise
    ELSE Ok([i \in DOMAIN image.easyocr.results |->
                EasyDetection(image.easyocr.results[i])])

detect_text_easyocr(d, image) ==
    IF ~d.easyocr_reader THEN Ok(<<>>) ELSE Catch(ReadText(image), <<>>)

(* line 114: text and conf > 0, on the stripped text *)
TessKept(item) == Strip(item.text) # "" /\ item.conf > 0

TessDetection(item) ==
    [text |-> Strip(item.text),
     bbox |-> <<item.left, item.top, item.left + item.width, item.top + item.height>>,
     confidence |-> item.conf, engine |-> "tesseract"]

(* lines 105-123, the body of the try *)
ImageToData(image) ==
    IF image.tesseract.raises THEN Raise
    ELSE LET kept == SelectSeq(image.tesseract.data, TessKept)
         IN  Ok([i \in DOMAIN kept |-> TessDetection(kept[i])])

detect_text_tesseract(d, image) ==
    IF ~d.TESSERACT_AVAILABLE THEN Ok(<<>>) ELSE Catch(ImageToData(image), <<>>)

(* lines 130-135: which engine detect_text hands the image to *)
Dispatch(d) ==
    IF d.ocr_engine = "easyocr" \/ (d.ocr_engine = "both" /\ d.easyocr_reader)
    THEN "easyocr"
    ELSE IF d.ocr_engine = "tesseract" \/ d.ocr_engine = "both" THEN "tesseract"
    ELSE "none"

(* the engine calls detect_text makes: readtext only with a reader (lines
   69-74), image_to_data only with the library (lines 101-105) *)
EngineCalls(d) ==
    IF Dispatch(d) = "easyocr"
    THEN IF d.easyocr_reader THEN <<"easyocr">> ELSE <<>>
    ELSE IF Dispatch(d) = "tesseract"
    THEN IF d.TESSERACT_AVAILABLE THEN <<"tesseract">> ELSE <<>>
    ELSE <<>>

(* mutant: an empty or failed first result sends the image to Tesseract *)
detect_text_Fallback(d, image) ==
    IF Dispatch(d) = "easyocr" /\ detect_text_easyocr(d, image).value # <<>>
    THEN detect_text_easyocr(d, image)
    ELSE IF d.ocr_engine \in {"tesseract", "both"} THEN detect_text_tesseract(d, image)
    ELSE Ok(<<>>)

detect_text(d, image) ==
    IF Dispatch(d) = "easyocr" THEN detect_text_easyocr(d, image)
    ELSE IF Dispatch(d) = "tesseract" THEN detect_text_tesseract(d, image)
    ELSE Ok(<<>>)

(* mutant: the offset is added twice *)
Shift_Twice(bbox, x1, y1) ==
    <<bbox[1] + x1 + x1, bbox[2] + y1 + y1, bbox[3] + x1 + x1, bbox[4] + y1 + y1>>

(* lines 147-151: the crop's offset added to the box *)
Shift(bbox, x1, y1) == <<bbox[1] + x1, bbox[2] + y1, bbox[3] + x1, bbox[4] + y1>>

(* detect_text_in_region, lines 137-151.  region is image.crop(bbox), given
   by what the engines do with it; every call of detect_text builds new
   detections, so the in-place += touches each box once *)
detect_text_in_region(d, region, bbox) ==
    LET detections == detect_text(d, region)
    IN  IF detections.raised THEN Raise
        ELSE Ok([i \in DOMAIN detections.value |->
                    [detections.value[i] EXCEPT !.bbox = Shift(@, bbox[1], bbox[2])]])

(* list.sort(key=lambda x: x['bbox'][1]): stable, ascending *)
RECURSIVE InsertByTop(_, _)
InsertByTop(sorted, d) ==
    IF sorted = <<>> THEN <<d>>
    ELSE IF sorted[Len(sorted)].bbox[2] <= d.bbox[2] THEN Append(sorted, d)
    ELSE Append(InsertByTop(SubSeq(sorted, 1, Len(sorted) - 1), d), sorted[Len(sorted)])

RECURSIVE SortTopLoop(_, _)
SortTopLoop(dets, sorted) ==
    IF dets = <<>> THEN sorted ELSE SortTopLoop(Tail(dets), InsertByTop(sorted, Head(dets)))

SortByTop(dets) == SortTopLoop(dets, <<>>)

DefaultThreshold == 50

(* mutant: a detection at the threshold is dropped *)
Confident_Strictly(det, confidence_threshold) == det.confidence > confidence_threshold

(* line 208 *)
Confident(det, confidence_threshold) == det.confidence >= confidence_threshold

(* lines 205-211: the detections kept, in the order they are joined *)
VisibleDetections(detections, confidence_threshold) ==
    SortByTop(SelectSeq(detections, LAMBDA det : Confident(det, confidence_threshold)))

extract_visible_text(d, image, confidence_threshold) ==
    LET detections == detect_text(d, image)
    IN  IF detections.raised THEN Raise
        ELSE Ok(JoinTexts(VisibleDetections(detections.value, confidence_threshold)))

(* detect_ui_elements, lines 153-201.  A contour is the rectangle
   cv2.boundingRect gives for it, [x, y, w, h].  The ratio w / h is kept as
   the pair <<w, h>> and compared with n / m by cross-multiplication, which
   for these integers decides as the float division does. *)
MinArea == 100
ButtonMaxHeight == 50

AspectRatio(w, h) == IF h > 0 THEN <<w, h>> ELSE <<0, 1>>

RatioAbove(r, n, m) == r[1] * m > n * r[2]
RatioBelow(r, n, m) == r[1] * m < n * r[2]

(* lines 180-187 *)
ElementType(w, h) ==
    LET aspect_ratio == AspectRatio(w, h) IN
    IF RatioAbove(aspect_ratio, 2, 1) /\ RatioBelow(aspect_ratio, 10, 1)
       /\ h < ButtonMaxHeight
    THEN "button"
    ELSE IF RatioAbove(aspect_ratio, 4, 5) /\ RatioBelow(aspect_ratio, 6, 5) THEN "icon"
    ELSE IF RatioAbove(aspect_ratio, 10, 1) THEN "menu_bar"
    ELSE "container"

(* mutant: an area of exactly 100 is skipped too *)
NotNoise_Above(c) == c.w * c.h > MinArea

(* line 176: area < 100 is skipped *)
NotNoise(c) == ~(c.w * c.h < MinArea)

Element(c) ==
    [type |-> ElementType(c.w, c.h), bbox |-> <<c.x, c.y, c.x + c.w, c.y + c.h>>,
     area |-> c.w * c.h, aspect_ratio |-> AspectRatio(c.w, c.h)]

(* raises: np.array, cvtColor, Canny or findContours throws *)
detect_ui_elements(CV2_AVAILABLE, raises, contours) ==
    IF ~CV2_AVAILABLE THEN <<>>
    ELSE IF raises THEN <<>>
    ELSE LET kept == SelectSeq(contours, NotNoise)
         IN  [i \in DOMAIN kept |-> Element(kept[i])]

----------------------------------------------------------------------------
(* analyzer.py: ScreenAnalyzer.analyze_window *)

(* the uses analyze_window makes of the handle, in order; the window can go
   away before any of them, or never *)
HandleUses ==
    <<"get_window_info", "capture_window", "get_ui_tree", "search_tabs",
      "GetWindowRect of get_browser_tabs", "get_window_info of _extract_tabs_with_ocr">>

Never == Len(HandleUses) + 1
(* line 162: tabs == ['__USE_OCR__'] and screenshot.  Reading the local
   screenshot when capture_screenshot was False raises UnboundLocalError. *)
IsFlag(tabs) == tabs = <<USE_OCR>>

FlagTestRaises(tabs, screenshot) == IsFlag(tabs) /\ screenshot = Unbound

UseOcr(tabs, screenshot) == IsFlag(tabs) /\ screenshot = Image

(* lines 124-128 *)
NotFoundResult(wins, window_identifier) ==
    ("error" :> "Window '" \o window_identifier \o "' not found")
    @@ ("available_windows" :> Titles(get_all_windows(wins)))

NoObs == [hwnd |-> NoHwnd, screenshot |-> Unbound, treeTabs |-> <<>>,
          gbtArg |-> None, gbt |-> <<>>, ocr |-> NoOcr, tabs |-> <<>>]

(* mutant: the text detection is not nested under the successful capture *)
CaptureFields_DetectAnyway(r, capture_screenshot, screenshot, size, want_text, full) ==
    LET shot == IF ~capture_screenshot THEN r
                ELSE IF screenshot = Image
                THEN ("screenshot" :> screenshot) @@ ("screenshot_size" :> size) @@ r
                ELSE ("screenshot_error" :> "Failed to capture window") @@ r
    IN  IF capture_screenshot /\ want_text
        THEN ("text_detections" :> full) @@ ("extracted_text" :> JoinTexts(full)) @@ shot
        ELSE shot

(* lines 138-150: the fields the capture adds to the result; want_text is
   the detect_text argument *)
CaptureFields(r, capture_screenshot, screenshot, size, want_text, full) ==
    IF ~capture_screenshot THEN r
    ELSE IF screenshot = Image
    THEN LET shot == ("screenshot" :> screenshot) @@ ("screenshot_size" :> size) @@ r
         IN  IF want_text
             THEN ("text_detections" :> full) @@ ("extracted_text" :> JoinTexts(full))
                  @@ shot
             ELSE shot
    ELSE ("screenshot_error" :> "Failed to capture window") @@ r

(* lines 153-156 *)
UiTreeFields(r, get_tree, ui_elements) ==
    IF get_tree
    THEN ("ui_elements" :> ui_elements) @@ ("ui_element_count" :> Len(ui_elements)) @@ r
    ELSE r

(* mutant: the tab list is stored even when it is empty *)
TabsField_Always(r, tabs) == ("browser_tabs" :> tabs) @@ r

(* lines 165-166 *)
TabsField(r, tabs) == IF tabs # <<>> THEN ("browser_tabs" :> tabs) @@ r ELSE r

(* o: the options; env: the collaborators' outcomes during the call.  The
   handle is valid at the k-th use of it iff k < env.staleFrom. *)
analyze_window(wins, available, tree, full, detsB, detsC, window_identifier, o, env) ==
    LET hwnd == find_window(wins, window_identifier) IN
    IF hwnd = NoHwnd
    THEN [result |-> NotFoundResult(wins, window_identifier), raised |-> FALSE,
          obs |-> NoObs]
    ELSE
    LET alive(k) == k < env.staleFrom
        window_info == get_window_info(wins, hwnd, alive(1), env.procOk)
        r0 == ("window_info" :> window_info) @@ ("timestamp" :> Now)
        screenshot == IF o.capture_screenshot
                      THEN capture_window(wins, hwnd, alive(2), env.grabOk)
                      ELSE Unbound
        size == <<Width(WindowOf(wins, hwnd).bbox), Height(WindowOf(wins, hwnd).bbox)>>
        r1 == CaptureFields(r0, o.capture_screenshot, screenshot, size, o.detect_text, full)
        ui_elements == get_ui_tree(available, alive(3), tree, UiTreeDepth)
        r2 == UiTreeFields(r1, o.get_ui_tree, ui_elements)
        treeTabs == TreeTabs(available, alive(4), tree)
        gbtArg == IF o.capture_screenshot THEN screenshot ELSE None
        gbt == get_browser_tabs(treeTabs, gbtArg, alive(5))
        ocr == IF ~FlagTestRaises(gbt, screenshot) /\ UseOcr(gbt, screenshot)
               THEN extract_tabs_with_ocr(
                        get_window_info(wins, hwnd, alive(6), env.procOk),
                        env.failAt, detsB, detsC)
               ELSE NoOcr
        tabs == IF ocr.ran THEN ocr.tabs ELSE gbt
        r3 == TabsField(r2, tabs)
        seen == [hwnd |-> hwnd, screenshot |-> screenshot, treeTabs |-> treeTabs,
                 gbtArg |-> gbtArg, gbt |-> gbt, ocr |-> ocr, tabs |-> tabs]
    IN  IF FlagTestRaises(gbt, screenshot)
        THEN [result |-> NoResult, raised |-> TRUE, obs |-> seen]
        ELSE [result |-> r3, raised |-> FALSE, obs |-> seen]

NoActiveWindow == [result |-> ("error" :> "No active window found"), raised |-> FALSE,
                   obs |-> NoObs]

(* line 174 *)
HasTitle(active) ==
    /\ "absent" \notin DOMAIN active
    /\ "title" \in DOMAIN active
    /\ active.title # ""

(* mutant: the title is not tested *)
analyze_active_window_Untested(wins, available, tree, full, detsB, detsC, fg, o, env) ==
    LET active == get_focused_window(wins, fg)
    IN  IF "title" \notin DOMAIN active THEN NoActiveWindow
        ELSE analyze_window(wins, available, tree, full, detsB, detsC, active.title, o, env)

(* analyze_active_window, lines 170-177 *)
analyze_active_window(wins, available, tree, full, detsB, detsC, fg, o, env) ==
    LET active == get_focused_window(wins, fg)
    IN  IF ~HasTitle(active) THEN NoActiveWindow
        ELSE analyze_window(wins, available, tree, full, detsB, detsC, active.title, o, env)

(* analyze_full_screen, lines 179-215.  env: the number of monitors, whether
   the grab succeeds, whether cv2 is installed and whether it throws *)
analyze_full_screen(monitor_num, want_text, detect_ui, env, full, contours) ==
    LET shot == capture_full_screen(monitor_num, env.monitors, env.grabOk) IN
    IF shot.raised THEN [result |-> NoResult, raised |-> TRUE, obs |-> NoObs]
    ELSE
    LET r0 == ("timestamp" :> Now) @@ ("monitor_num" :> monitor_num)
              @@ ("screenshot_size" :> shot.size) @@ ("screenshot" :> shot.screenshot)
        r1 == IF want_text
              THEN ("text_detections" :> full) @@ ("text_count" :> Len(full))
                   @@ ("extracted_text" :> JoinTexts(full)) @@ r0
              ELSE r0
        ui_elements == detect_ui_elements(env.cv2, env.cvRaises, contours)
        r2 == IF detect_ui
              THEN ("ui_elements" :> ui_elements)
                   @@ ("ui_element_count" :> Len(ui_elements)) @@ r1
              ELSE r1
    IN  [result |-> r2, raised |-> FALSE,
         obs |-> [NoObs EXCEPT !.screenshot = shot.screenshot]]

(* find_window_by_content, lines 217-236.  outcome[hwnd] is what happens to
   that window during the scan: whether it is still there (alive), whether
   the grab succeeds (grabOk), and the image captured *)
ContentMatch(search_text, extracted) == InStr(Lower(search_text), Lower(extracted))

(* lines 223-234 for one window: the results after it.  An exception in the
   try is passed over *)
Scanned(d, wins, window, search_text, o, results) ==
    LET screenshot == capture_window(wins, window.hwnd, o.alive, o.grabOk)
        extracted == extract_visible_text(d, o.image, DefaultThreshold)
    IN  IF screenshot = Image /\ ~extracted.raised
           /\ ContentMatch(search_text, extracted.value)
        THEN Append(results, [window |-> window, matching_text |-> extracted.value])
        ELSE results

(* mutant: the scan stops at the first window that cannot be captured *)
RECURSIVE ContentLoop_AbortOnFailure(_, _, _, _, _, _)
ContentLoop_AbortOnFailure(d, wins, windows, search_text, outcome, results) ==
    IF windows = <<>> THEN results
    ELSE LET window == Head(windows)
             o == outcome[window.hwnd]
         IN  IF capture_window(wins, window.hwnd, o.alive, o.grabOk) # Image THEN results
             ELSE ContentLoop_AbortOnFailure(d, wins, Tail(windows), search_text, outcome,
                      Scanned(d, wins, window, search_text, o, results))

RECURSIVE ContentLoop(_, _, _, _, _, _)
ContentLoop(d, wins, windows, search_text, outcome, results) ==
    IF windows = <<>> THEN results
    ELSE LET window == Head(windows)
         IN  ContentLoop(d, wins, Tail(windows), search_text, outcome,
                 Scanned(d, wins, window, search_text, outcome[window.hwnd], results))

find_window_by_content_Aborting(d, wins, search_text, outcome) ==
    ContentLoop_AbortOnFailure(d, wins, get_all_windows(wins), search_text, outcome, <<>>)

find_window_by_content(d, wins, search_text, outcome) ==
    ContentLoop(d, wins, get_all_windows(wins), search_text, outcome, <<>>)

(* get_window_summary, lines 238-262, applied to what analyze_window gave
   (a).  Lines 254-259 index window_info by title, process_name and bbox; a
   window_info that is the error record of get_window_info has none of them
   and the subscript raises KeyError. *)
SummaryKeys == {"title", "process_name", "bbox"}

SummaryOptions == [capture_screenshot |-> TRUE, detect_text |-> TRUE, get_ui_tree |-> FALSE]

Get(r, key, default) == IF key \in DOMAIN r THEN r[key] ELSE default

get_window_summary(a) ==
    IF a.raised THEN [result |-> NoResult, raised |-> TRUE, obs |-> a.obs]
    ELSE IF "error" \in DOMAIN a.result
    THEN [result |-> a.result, raised |-> FALSE, obs |-> a.obs]
    ELSE LET window_info == a.result["window_info"] IN
         IF ~(SummaryKeys \subseteq DOMAIN window_info)
         THEN [result |-> NoResult, raised |-> TRUE, obs |-> a.obs]
         ELSE [result |-> [window_name |-> window_info.title,
                           application |-> window_info.process_name,
                           visible_text |-> Get(a.result, "extracted_text", ""),
                           browser_tabs |-> Get(a.result, "browser_tabs", <<>>),
                           is_active |-> Get(window_info, "enabled", FALSE),
                           position |-> window_info.bbox],
               raised |-> FALSE, obs |-> a.obs]

(* get_all_windows_summary, lines 264-277: the loop over the catalogue.  gone
   are the handles of the windows closed since get_all_windows listed them;
   lines 272-273 index the info by title and process_name. *)
RECURSIVE SummariesLoop(_, _, _, _)
SummariesLoop(wins, windows, gone, summaries) ==
    IF windows = <<>> THEN [result |-> summaries, raised |-> FALSE, obs |-> NoObs]
    ELSE LET window == Head(windows)
             info == get_window_info(wins, window.hwnd, window.hwnd \notin gone, TRUE)
         IN  IF ~({"title", "process_name"} \subseteq DOMAIN info)
             THEN [result |-> NoResult, raised |-> TRUE, obs |-> NoObs]
             ELSE SummariesLoop(wins, Tail(windows), gone,
                                Append(summaries,
                                       [name |-> info.title,
                                        application |-> info.process_name,
                                        hwnd |-> window.hwnd]))

get_all_windows_summary(wins, gone) ==
    SummariesLoop(wins, get_all_windows(wins), gone, <<>>)

----------------------------------------------------------------------------
(* The worlds and inputs the model explores *)

Det(text, x) == [text |-> text, bbox |-> <<x, 8, x + 20, 24>>]

NormalBox == <<0, 0, 800, 600>>

Window(title, visible) ==
    [title |-> title, visible |-> visible, bbox |-> NormalBox, class |-> "Win",
     pid |-> 4, process |-> "app.exe", exe |-> "C:\\app.exe", enabled |-> TRUE]

WindowKinds ==
    {Window("Notepad", TRUE), Window("Inbox - Chrome", TRUE), Window("", TRUE),
     Window("Notes - Chrome", FALSE)}

(* the i-th enumerated window has handle i *)
WithHandles(kinds) ==
    [i \in DOMAIN kinds |-> [hwnd |-> i] @@ kinds[i]]

Desktops ==
    UNION {{WithHandles(k) : k \in [1..n -> WindowKinds]} : n \in 0..MaxWindows}

Identifiers == {"NOTE", "zzz", ""}

Options == [capture_screenshot : BOOLEAN, detect_text : BOOLEAN, get_ui_tree : BOOLEAN]

Node(control_type, name, depth) ==
    [control_type |-> control_type, name |-> name, depth |-> depth]

Root == Node("Window", "", 0)

Trees ==
    {<<Root>>,
     <<Root, Node("TabItem", "Inbox", 1), Node("TabItem", "Docs", 1)>>,
     <<Root, Node("TabItem", USE_OCR, 1)>>,
     <<Root, Node("TabItem", USE_OCR, 1), Node("TabItem", "Inbox", 1)>>,
     <<Root, Node("Pane", "", 1), Node("TabItem", "abc", 2), Node("Button", "Inbox", 2)>>,
     <<Root, Node("TabItem", "Inbox", 1), Node("TabItem", "Inbox", 1)>>}

PageDets == <<Det("Hello", 10), Det("world", 40)>>
TabDets == <<Det("Docs", 200), Det("Inbox", 60)>>
StopDets == <<Det("Google", 60)>>
LooseDets == <<Det("Google", 90)>>

Scenes ==
    {[tree |-> t, full |-> PageDets, b |-> TabDets, c |-> LooseDets] : t \in Trees}
    \cup {[tree |-> <<Root>>, full |-> f, b |-> b, c |-> c] :
              f \in {<<>>}, b \in {<<>>, StopDets}, c \in {<<>>, LooseDets}}
    \cup {[tree |-> <<Root, Node("TabItem", USE_OCR, 1)>>, full |-> <<>>, b |-> <<>>,
           c |-> c] : c \in {<<>>, LooseDets}}

FailPoints == {"none", "B", "C"}

(* the detector main.py builds, with both libraries installed *)
DefaultDetector == Detector("easyocr", TRUE, TRUE, TRUE)

(* the outcomes that can differ: a collaborator that is not reached has no
   outcome *)
Envs(o) ==
    {e \in [staleFrom : 1..Never, procOk : BOOLEAN, grabOk : BOOLEAN,
            failAt : FailPoints] :
        /\ (~e.procOk => e.staleFrom > 1)
        /\ (~e.grabOk => o.capture_screenshot /\ e.staleFrom > 2)
        /\ (e.failAt # "none" =>
               o.capture_screenshot /\ e.grabOk /\ e.staleFrom = Never)}

----------------------------------------------------------------------------
(* Specification of the orchestrator: one call of analyze_window on a
   desktop *)

Idle ==
    /\ pc = "idle"
    /\ call = [op |-> "none"]
    /\ result = NoResult
    /\ raised = FALSE
    /\ obs = NoObs

Init ==
    /\ desktop \in Desktops
    /\ uiaAvailable \in BOOLEAN
    /\ \E s \in Scenes :
          /\ uiaTree = TreeGraph(s.tree)
          /\ ocrFull = s.full
          /\ ocrB = s.b
          /\ ocrC = s.c
    /\ detector = DefaultDetector
    /\ Idle

Return(c, out) ==
    /\ pc' = "done"
    /\ call' = c
    /\ result' = out.result
    /\ raised' = out.raised
    /\ obs' = out.obs
    /\ UNCHANGED world

AnalyzeWindow ==
    /\ pc = "idle"
    /\ \E id \in Identifiers, o \in Options :
          \E env \in IF find_window(desktop, id) = NoHwnd
                     THEN {[staleFrom |-> Never, procOk |-> TRUE, grabOk |-> TRUE,
                            failAt |-> "none"]}
                     ELSE Envs(o) :
             Return([op |-> "analyze_window", window_identifier |-> id, options |-> o,
                     env |-> env],
                    analyze_window(desktop, uiaAvailable, uiaTree, ocrFull, ocrB, ocrC,
                                   id, o, env))

Next == AnalyzeWindow

Spec == Init /\ [][Next]_vars

----------------------------------------------------------------------------
(* Specification of the OCR tab extraction alone: the detections of the two
   crops are drawn in Init, one call of _extract_tabs_with_ocr applies it *)

TabTexts ==
    {"", "ab", "abc", " ab ", "...", "Google", "http://a", "www.a",
     Rep("t", MaxTabLen - 1), Rep("t", MaxTabLen)}

Steps == {0, TabGap, TabGap + 1}

(* n positions step apart, left to right or right to left *)
Layout(n, step, ascending) ==
    [i \in 1..n |-> IF ascending THEN step * (i - 1) ELSE step * (n - i)]

Place(texts, xs) == [i \in DOMAIN texts |-> Det(texts[i], xs[i])]

SmallDets ==
    UNION {{Place(texts, Layout(n, step, asc)) :
               texts \in [1..n -> TabTexts], step \in Steps, asc \in BOOLEAN} :
           n \in 0..MaxDets}

(* long rows of detections, two texts alternating *)
BulkTexts == {"abc", "Google", " pad "}
BulkSteps == {TabGap \div 2, TabGap + 1}

BulkDets ==
    {Place([i \in 1..n |-> IF i % 2 = 1 THEN t1 ELSE t2], Layout(n, step, asc)) :
        n \in (MaxDets + 1)..MaxBulk, t1 \in BulkTexts, t2 \in BulkTexts,
        step \in BulkSteps, asc \in BOOLEAN}

LooseCrops ==
    {<<>>, LooseDets, <<Det(" late ", 50), Det("ab", 20), Det("early", 10)>>,
     Place([i \in 1..MaxBulk |-> "abc"], Layout(MaxBulk, 1, FALSE))}

OneWindow == WithHandles(<<Window("Inbox - Chrome", TRUE)>>)

InitTabs ==
    /\ desktop = OneWindow
    /\ uiaAvailable = FALSE
    /\ uiaTree = TreeGraph(<<Root>>)
    /\ ocrFull = <<>>
    /\ ocrB \in SmallDets \cup BulkDets
    /\ ocrC \in LooseCrops
    /\ detector = DefaultDetector
    /\ Idle

(* alive: the window still exists when its info is read (line 35) *)
ExtractTabs ==
    /\ pc = "idle"
    /\ \E alive \in BOOLEAN, failAt \in FailPoints :
          /\ (~alive => failAt = "none")
          /\ LET hwnd == OneWindow[1].hwnd
                 ocr == extract_tabs_with_ocr(
                            get_window_info(desktop, hwnd, alive, TRUE), failAt, ocrB, ocrC)
             IN  Return([op |-> "_extract_tabs_with_ocr", alive |-> alive,
                         failAt |-> failAt],
                        [result |-> ocr.tabs, raised |-> FALSE,
                         obs |-> [NoObs EXCEPT !.hwnd = hwnd, !.screenshot = Image,
                                               !.ocr = ocr, !.tabs = ocr.tabs]])

NextTabs == ExtractTabs

SpecTabs == InitTabs /\ [][NextTabs]_vars

----------------------------------------------------------------------------
(* Specification of the two summaries: one call of get_window_summary or of
   get_all_windows_summary on a desktop whose windows can close at any point
   of the call *)

Handles(windows) == {windows[i].hwnd : i \in DOMAIN windows}

GetWindowSummary ==
    /\ pc = "idle"
    /\ \E id \in Identifiers :
          \E env \in IF find_window(desktop, id) = NoHwnd
                     THEN {[staleFrom |-> Never, procOk |-> TRUE, grabOk |-> TRUE,
                            failAt |-> "none"]}
                     ELSE Envs(SummaryOptions) :
             Return([op |-> "get_window_summary", window_identifier |-> id, env |-> env],
                    get_window_summary(
                        analyze_window(desktop, uiaAvailable, uiaTree, ocrFull, ocrB,
                                       ocrC, id, SummaryOptions, env)))

GetAllWindowsSummary ==
    /\ pc = "idle"
    /\ \E gone \in SUBSET Handles(get_all_windows(desktop)) :
          Return([op |-> "get_all_windows_summary", gone |-> gone],
                 get_all_windows_summary(desktop, gone))

NextSummary == GetWindowSummary \/ GetAllWindowsSummary

SpecSummary == Init /\ [][NextSummary]_vars

----------------------------------------------------------------------------
(* Specification of the full-screen analysis: one call of
   analyze_full_screen *)

Contour(x, y, w, h) == [x |-> x, y |-> y, w |-> w, h |-> h]

ScreenContours ==
    {<<>>, <<Contour(0, 0, 300, 20), Contour(10, 40, 3, 3), Contour(10, 60, 32, 32)>>}

ScreenEnvs(detect_ui) ==
    {e \in [monitors : 1..MaxMonitors, grabOk : BOOLEAN, cv2 : BOOLEAN,
            cvRaises : BOOLEAN] :
        /\ (~e.cv2 \/ e.cvRaises => detect_ui /\ e.grabOk)
        /\ (e.cvRaises => e.cv2)}

InitScreen ==
    /\ desktop = <<>>
    /\ uiaAvailable = FALSE
    /\ uiaTree = TreeGraph(<<Root>>)
    /\ ocrFull \in {<<>>, PageDets}
    /\ ocrB = <<>>
    /\ ocrC = <<>>
    /\ detector = DefaultDetector
    /\ Idle

AnalyzeFullScreen ==
    /\ pc = "idle"
    /\ \E monitor_num \in 0..(MaxMonitors + 1), want_text \in BOOLEAN,
          detect_ui \in BOOLEAN, contours \in ScreenContours :
          \E env \in ScreenEnvs(detect_ui) :
             Return([op |-> "analyze_full_screen", monitor_num |-> monitor_num,
                     detect_text |-> want_text, detect_ui |-> detect_ui,
                     contours |-> contours, env |-> env],
                    analyze_full_screen(monitor_num, want_text, detect_ui, env, ocrFull,
                                        contours))

NextScreen == AnalyzeFullScreen

SpecScreen == InitScreen /\ [][NextScreen]_vars

----------------------------------------------------------------------------
(* Specification of the window catalogue and of the search by content: one
   call of find_window, get_all_windows, list_all_windows or
   find_window_by_content on a desktop *)

FindInputs == {"NOTE", "Notepad", "chrome", "o", "zzz", ""}

(* a corner-aligned EasyOCR result *)
EasyItem(text, x, y, confidence) ==
    [quad |-> <<<<x, y>>, <<x + 40, y>>, <<x + 40, y + 12>>, <<x, y + 12>>>>,
     text |-> text, confidence |-> confidence]

NoOutput == [raises |-> FALSE, results |-> <<>>, data |-> <<>>]

EasyImage(results) ==
    [easyocr |-> [NoOutput EXCEPT !.results = results], tesseract |-> NoOutput]

UnreadableImage ==
    [easyocr |-> [NoOutput EXCEPT !.raises = TRUE],
     tesseract |-> [NoOutput EXCEPT !.raises = TRUE]]

ContentImages ==
    {EasyImage(<<EasyItem("world", 10, 30, 90), EasyItem("Hello", 10, 8, DefaultThreshold)>>),
     EasyImage(<<EasyItem("Hello", 10, 8, DefaultThreshold - 1)>>),
     UnreadableImage}

ContentOutcomes ==
    {[alive |-> TRUE, grabOk |-> TRUE, image |-> i] : i \in ContentImages}
    \cup {[alive |-> FALSE, grabOk |-> TRUE, image |-> UnreadableImage],
          [alive |-> TRUE, grabOk |-> FALSE, image |-> UnreadableImage]}

SearchTexts == {"HELLO", "World", ""}

InitCatalog ==
    /\ desktop \in Desktops
    /\ uiaAvailable = FALSE
    /\ uiaTree = TreeGraph(<<Root>>)
    /\ ocrFull = <<>>
    /\ ocrB = <<>>
    /\ ocrC = <<>>
    /\ detector = DefaultDetector
    /\ Idle

Returns(c, value) == Return(c, [result |-> value, raised |-> FALSE, obs |-> NoObs])

FindWindow ==
    /\ pc = "idle"
    /\ \E title_substring \in FindInputs :
          Returns([op |-> "find_window", title_substring |-> title_substring],
                  find_window(desktop, title_substring))

GetAllWindows ==
    /\ pc = "idle"
    /\ \E gone \in SUBSET Handles(desktop) :
          Returns([op |-> "get_all_windows", gone |-> gone], Listed(desktop, gone))

ListAllWindows ==
    /\ pc = "idle"
    /\ \E gone \in SUBSET Handles(desktop) :
          Returns([op |-> "list_all_windows", gone |-> gone],
                  list_all_windows(desktop, gone))

FindWindowByContent ==
    /\ pc = "idle"
    /\ \E search_text \in SearchTexts,
          outcome \in [Handles(get_all_windows(desktop)) -> ContentOutcomes] :
          Returns([op |-> "find_window_by_content", search_text |-> search_text,
                   outcome |-> outcome],
                  find_window_by_content(detector, desktop, search_text, outcome))

NextCatalog == FindWindow \/ GetAllWindows \/ ListAllWindows \/ FindWindowByContent

SpecCatalog == InitCatalog /\ [][NextCatalog]_vars

----------------------------------------------------------------------------
(* Specification of the detector's text functions: a detector as the
   constructor can leave it, and one call of detect_text,
   detect_text_in_region or extract_visible_text on an image *)

Detectors == {Detector(e, a, i, t) : e \in Engines, a \in BOOLEAN, i \in BOOLEAN,
                                     t \in BOOLEAN}

(* a result whose corner points are not axis-aligned *)
TiltedItem ==
    [quad |-> <<<<12, 20>>, <<50, 16>>, <<52, 28>>, <<14, 32>>>>, text |-> "tilt",
     confidence |-> 75]

EasyPool ==
    {EasyItem("world", 10, 30, 90), EasyItem("Hello", 10, 8, DefaultThreshold),
     EasyItem("faint", 60, 8, DefaultThreshold - 1), TiltedItem}

TessItem(text, conf, left, top) ==
    [text |-> text, conf |-> conf, left |-> left, top |-> top, width |-> 30,
     height |-> 12]

TessPool ==
    {TessItem(" File ", 96, 5, 30), TessItem("Edit", DefaultThreshold, 40, 8),
     TessItem("   ", 95, 80, 8), TessItem("noise", 0, 5, 50)}

SeqsUpTo(pool, n) == UNION {[1..k -> pool] : k \in 0..n}

TextImages ==
    {[easyocr |-> [raises |-> r1, results |-> e, data |-> <<>>],
      tesseract |-> [raises |-> r2, results |-> <<>>, data |-> t]] :
        r1 \in BOOLEAN, r2 \in BOOLEAN,
        e \in SeqsUpTo(EasyPool, MaxDets), t \in {<<TessItem(" File ", 96, 5, 30)>>}}
    \cup
    {[easyocr |-> [raises |-> r1, results |-> e, data |-> <<>>],
      tesseract |-> [raises |-> r2, results |-> <<>>, data |-> t]] :
        r1 \in BOOLEAN, r2 \in BOOLEAN,
        e \in {<<EasyItem("Hello", 10, 8, 90)>>}, t \in SeqsUpTo(TessPool, MaxDets)}

Regions == {<<0, 0, 100, 40>>, <<50, 5, 300, 35>>}

Thresholds == {DefaultThreshold, 90}

InitDetector ==
    /\ desktop = <<>>
    /\ uiaAvailable = FALSE
    /\ uiaTree = TreeGraph(<<Root>>)
    /\ ocrFull = <<>>
    /\ ocrB = <<>>
    /\ ocrC = <<>>
    /\ detector \in Detectors
    /\ Idle

Comes(c, outcome) ==
    Return(c, [result |-> outcome.value, raised |-> outcome.raised,
               obs |-> [engines |-> EngineCalls(detector)]])

DetectText ==
    /\ pc = "idle"
    /\ \E image \in TextImages :
          Comes([op |-> "detect_text", image |-> image], detect_text(detector, image))

DetectTextInRegion ==
    /\ pc = "idle"
    /\ \E image \in TextImages, bbox \in Regions :
          Comes([op |-> "detect_text_in_region", image |-> image, bbox |-> bbox],
                detect_text_in_region(detector, image, bbox))

ExtractVisibleText ==
    /\ pc = "idle"
    /\ \E image \in TextImages, confidence_threshold \in Thresholds :
          Comes([op |-> "extract_visible_text", image |-> image,
                 confidence_threshold |-> confidence_threshold],
                extract_visible_text(detector, image, confidence_threshold))

NextDetector == DetectText \/ DetectTextInRegion \/ ExtractVisibleText

SpecDetector == InitDetector /\ [][NextDetector]_vars

----------------------------------------------------------------------------
(* Specification of the region detection: one call of detect_ui_elements on
   an image whose contours have the given bounding rectangles *)

ContourWidths == {1, 9, 10, 12, 20, 21, 40, 60, 100, 101, 200}
ContourHeights == {1, 10, 49, 50}

(* the k-th contour of a list lies at (5k, 7k) *)
Contours(ws, hs) == [k \in DOMAIN ws |-> Contour(5 * k, 7 * k, ws[k], hs[k])]

InitRegions ==
    /\ desktop = <<>>
    /\ uiaAvailable = FALSE
    /\ uiaTree = TreeGraph(<<Root>>)
    /\ ocrFull = <<>>
    /\ ocrB = <<>>
    /\ ocrC = <<>>
    /\ detector = DefaultDetector
    /\ Idle

DetectUIElements ==
    /\ pc = "idle"
    /\ \E cv2 \in BOOLEAN, cvRaises \in BOOLEAN, n \in 0..MaxContours :
          \E ws \in [1..n -> ContourWidths], hs \in [1..n -> ContourHeights] :
             /\ (cvRaises => cv2)
             /\ (~cv2 \/ cvRaises => n = 1)
             /\ Returns([op |-> "detect_ui_elements", cv2 |-> cv2,
                         cvRaises |-> cvRaises, contours |-> Contours(ws, hs)],
                        detect_ui_elements(cv2, cvRaises, Contours(ws, hs)))

NextRegions == DetectUIElements

SpecRegions == InitRegions /\ [][NextRegions]_vars

----------------------------------------------------------------------------
(* Specification of the accessibility walks: one call of get_ui_tree or of
   get_browser_tabs on a window whose accessibility graph is drawn at the
   start: every labelled tree of up to MaxTreeNodes nodes, a chain deeper than
   both depth bounds, graphs with cycles and a window of tab items with every
   kind of name, each of them with no failing read or with one. *)
MaxTreeNodes == 3

NodeKinds == {<<"Pane", "">>, <<"Unknown", "">>, <<"TabItem", "Inbox">>}

(* the depths of the pre-order listings of the trees of n nodes *)
Shapes(n) ==
    {d \in [1..n -> 0..(n - 1)] :
        /\ d[1] = 0
        /\ \A i \in 2..n : d[i] >= 1 /\ d[i] <= d[i - 1] + 1}

FlatTree(kinds, depths) ==
    [i \in DOMAIN depths |-> [control_type |-> kinds[i][1], name |-> kinds[i][2],
                              depth |-> depths[i]]]

ChainNames ==
    <<"Home", "Mail", "News", "Maps", "Docs", "Play", "Shop", "Chat", "Meet",
      "Drive", "Photos", "Sheets", "Slides">>

DeepChain ==
    [i \in DOMAIN ChainNames |->
        GraphNode("TabItem", ChainNames[i],
                  IF i < Len(ChainNames) THEN <<i + 1>> ELSE <<>>, {})]

SelfLoop == <<GraphNode("Pane", "Loop", <<1>>, {})>>

TwoCycle ==
    <<GraphNode("TabItem", "Ahead", <<2>>, {}), GraphNode("TabItem", "Back", <<1>>, {})>>

BranchingCycle ==
    <<GraphNode("Window", "", <<2, 3>>, {}),
      GraphNode("Unknown", "", <<1>>, {}),
      GraphNode("TabItem", "Left", <<>>, {})>>

TabStrip ==
    <<GraphNode("Window", "", <<2, 3, 4, 5, 6, 7, 8, 9>>, {}),
      GraphNode("TabItem", "abc", <<>>, {}),
      GraphNode("TabItem", "abcd", <<>>, {}),
      GraphNode("TabItem", "Active View 1", <<>>, {}),
      GraphNode("TabItem", "Tab content 2", <<>>, {}),
      GraphNode("Button", "Inbox", <<>>, {}),
      GraphNode("TabItemControl", "Docs", <<>>, {}),
      GraphNode("TabItem", "abcd", <<>>, {}),
      GraphNode("TabItem", "", <<>>, {})>>

DrawnGraphs == {DeepChain, SelfLoop, TwoCycle, BranchingCycle, TabStrip}

ReadKinds == {"info", "rectangle", "state", "children"}

(* g with no failing read (e = 0) or with the read kind of node e failing *)
WithFailure(g, e, kind) == IF e = 0 THEN g ELSE [g EXCEPT ![e].fails = {kind}]

MaxDepths == {0, 1, UiTreeDepth}

InitTree ==
    /\ desktop = <<>>
    /\ uiaAvailable \in BOOLEAN
    /\ \/ \E n \in 1..MaxTreeNodes :
             \E kinds \in [1..n -> NodeKinds], depths \in Shapes(n) :
                \E e \in 0..n, kind \in ReadKinds :
                   uiaTree = WithFailure(TreeGraph(FlatTree(kinds, depths)), e, kind)
       \/ \E g \in DrawnGraphs :
             \E e \in 0..Len(g), kind \in ReadKinds : uiaTree = WithFailure(g, e, kind)
    /\ ocrFull = <<>>
    /\ ocrB = <<>>
    /\ ocrC = <<>>
    /\ detector = DefaultDetector
    /\ Idle

GetUITree ==
    /\ pc = "idle"
    /\ \E alive \in BOOLEAN, max_depth \in MaxDepths :
          LET walk == UiTreeWalk(uiaAvailable, alive, uiaTree, max_depth)
          IN  Return([op |-> "get_ui_tree", alive |-> alive, max_depth |-> max_depth],
                     [result |-> get_ui_tree(uiaAvailable, alive, uiaTree, max_depth),
                      raised |-> FALSE,
                      obs |-> [visits |-> walk.visits]])

GetBrowserTabs ==
    /\ pc = "idle"
    /\ \E alive \in BOOLEAN, screenshot \in {None, Image}, rectOk \in BOOLEAN :
          LET walk == TabWalk(uiaAvailable, alive, uiaTree)
          IN  Return([op |-> "get_browser_tabs", alive |-> alive,
                      screenshot |-> screenshot, rectOk |-> rectOk],
                     [result |-> get_browser_tabs(walk.tabs, screenshot, rectOk),
                      raised |-> FALSE,
                      obs |-> [visits |-> walk.visits, tabs |-> walk.tabs]])

NextTree == GetUITree \/ GetBrowserTabs

SpecTree == InitTree /\ [][NextTree]_vars

----------------------------------------------------------------------------
(* Specification of the foreground window: one call of get_window_info or of
   analyze_active_window on a desktop.  The desktops hold, besides the windows
   of the catalogue, a window whose title contains another window's title. *)
ActiveKinds == WindowKinds \cup {Window("Untitled - Notepad", TRUE)}

(* the foreground window is a visible window of the desktop, or none; what
   is not read has no outcome *)
Foregrounds(wins) ==
    {fg \in [raises : BOOLEAN, hwnd : {NoHwnd} \cup Handles(wins), alive : BOOLEAN,
             procOk : BOOLEAN] :
        /\ (fg.hwnd # NoHwnd => WindowOf(wins, fg.hwnd).visible)
        /\ (fg.raises => fg.hwnd = NoHwnd)
        /\ (fg.hwnd = NoHwnd => ~fg.alive)
        /\ (~fg.alive => fg.procOk)}

ActiveEnvs(o) == {e \in Envs(o) : e.failAt = "none" /\ e.staleFrom \in {1, 2, Never}}

QuietEnv == [staleFrom |-> Never, procOk |-> TRUE, grabOk |-> TRUE, failAt |-> "none"]

InitActive ==
    /\ \E n \in 0..MaxWindows : \E k \in [1..n -> ActiveKinds] : desktop = WithHandles(k)
    /\ uiaAvailable \in BOOLEAN
    /\ uiaTree = TreeGraph(<<Root, Node("TabItem", "Inbox", 1)>>)
    /\ ocrFull = PageDets
    /\ ocrB = TabDets
    /\ ocrC = LooseDets
    /\ detector = DefaultDetector
    /\ Idle

GetWindowInfo ==
    /\ pc = "idle"
    /\ \E hwnd \in {NoHwnd} \cup Handles(desktop), alive \in BOOLEAN, procOk \in BOOLEAN :
          /\ (hwnd = NoHwnd => ~alive)
          /\ (~alive => procOk)
          /\ Returns([op |-> "get_window_info", hwnd |-> hwnd, alive |-> alive,
                      procOk |-> procOk],
                     get_window_info(desktop, hwnd, alive, procOk))

AnalyzeActiveWindow ==
    /\ pc = "idle"
    /\ \E fg \in Foregrounds(desktop), o \in Options :
          \E env \in IF HasTitle(get_focused_window(desktop, fg))
                         /\ find_window(desktop, get_focused_window(desktop, fg).title) # NoHwnd
                     THEN ActiveEnvs(o) ELSE {QuietEnv} :
             Return([op |-> "analyze_active_window", fg |-> fg, options |-> o, env |-> env],
                    analyze_active_window(desktop, uiaAvailable, uiaTree, ocrFull, ocrB,
                                          ocrC, fg, o, env))

NextActive == GetWindowInfo \/ AnalyzeActiveWindow

SpecActive == InitActive /\ [][NextActive]_vars

----------------------------------------------------------------------------
(* Specification of a session: get_window_summary, then any analysis call,
   then get_window_summary again with the same identifier on the same
   desktop, where every collaborator answers as it did the first time. *)
SessionScenes ==
    {[tree |-> <<Root, Node("TabItem", "Inbox", 1), Node("TabItem", "Docs", 1)>>,
      full |-> PageDets, b |-> TabDets, c |-> LooseDets],
     [tree |-> <<Root>>, full |-> PageDets, b |-> TabDets, c |-> LooseDets]}

InitSession ==
    /\ desktop \in Desktops
    /\ uiaAvailable \in BOOLEAN
    /\ \E s \in SessionScenes :
          /\ uiaTree = TreeGraph(s.tree)
          /\ ocrFull = s.full
          /\ ocrB = s.b
          /\ ocrC = s.c
    /\ detector = DefaultDetector
    /\ Idle

(* mutant: a call that resolved a window gives up the accessibility engine *)
InspectorAfter_Dropped(available, out) == available /\ out.obs.hwnd = NoHwnd

(* self.inspector.desktop after a call that came out as out: no call assigns
   a field of the orchestrator or of its collaborators *)
InspectorAfter(available, out) == available

SessionEnvs(id) ==
    IF find_window(desktop, id) = NoHwnd THEN {QuietEnv} ELSE ActiveEnvs(SummaryOptions)

Summary(id, env) ==
    get_window_summary(analyze_window(desktop, uiaAvailable, uiaTree, ocrFull, ocrB, ocrC,
                                      id, SummaryOptions, env))

SummarizeFirst ==
    /\ pc = "idle"
    /\ \E id \in Identifiers :
          \E env \in SessionEnvs(id) :
             LET out == Summary(id, env)
             IN  /\ pc' = "once"
                 /\ call' = [op |-> "get_window_summary", window_identifier |-> id,
                             env |-> env, between |-> FALSE]
                 /\ result' = out.result
                 /\ raised' = out.raised
                 /\ obs' = out.obs
                 /\ uiaAvailable' = InspectorAfter(uiaAvailable, out)
                 /\ UNCHANGED <<desktop, uiaTree, ocrFull, ocrB, ocrC, detector>>

AnalyzeBetween ==
    /\ pc = "once"
    /\ ~call.between
    /\ \E id \in Identifiers, o \in Options :
          \E env \in IF find_window(desktop, id) = NoHwnd THEN {QuietEnv} ELSE ActiveEnvs(o) :
             LET out == analyze_window(desktop, uiaAvailable, uiaTree, ocrFull, ocrB, ocrC,
                                       id, o, env)
             IN  /\ call' = [call EXCEPT !.between = TRUE]
                 /\ uiaAvailable' = InspectorAfter(uiaAvailable, out)
                 /\ UNCHANGED <<desktop, uiaTree, ocrFull, ocrB, ocrC, detector, pc,
                                result, raised, obs>>

SummarizeAgain ==
    /\ pc = "once"
    /\ LET out == Summary(call.window_identifier, call.env)
       IN  /\ pc' = "done"
           /\ call' = [op |-> "get_window_summary again",
                       window_identifier |-> call.window_identifier, env |-> call.env,
                       between |-> call.between]
           /\ result' = out.result
           /\ raised' = out.raised
           /\ obs' = [first |-> [result |-> result, raised |-> raised]]
           /\ uiaAvailable' = InspectorAfter(uiaAvailable, out)
           /\ UNCHANGED <<desktop, uiaTree, ocrFull, ocrB, ocrC, detector>>

NextSession == SummarizeFirst \/ AnalyzeBetween \/ SummarizeAgain

SpecSession == InitSession /\ [][NextSession]_vars

----------------------------------------------------------------------------
(* Properties *)

Done == pc = "done"
Analyzed == Done /\ call.op = "analyze_window"
Resolved == Analyzed /\ obs.hwnd # NoHwnd
Extracted == Done /\ call.op = "_extract_tabs_with_ocr"
Has(key) == key \in DOMAIN result

(* C1: whenever the accessibility tab search of get_browser_tabs finds a
   non-empty tab list, analyze_window returns with browser_tabs equal to
   exactly that list and the OCR tab extraction is not run, whatever names
   the accessibility tree supplies. *)
C1_StageAListIsFinal ==
    (Resolved /\ obs.treeTabs # <<>>) =>
        /\ ~raised
        /\ Has("browser_tabs")
        /\ result["browser_tabs"] = obs.treeTabs
        /\ ~obs.ocr.ran

(* C2: the OCR tab extraction runs only if the accessibility tab search
   produced no tabs and a screenshot of the window is available; with the
   capture disabled or failed it never runs. *)
C2_OcrOnlyWithoutStageATabs ==
    Resolved =>
        /\ (obs.ocr.ran => obs.treeTabs = <<>> /\ obs.screenshot = Image)
        /\ (obs.screenshot # Image => ~obs.ocr.ran)

(* C3: get_browser_tabs returns the use-OCR flag, not an empty list, whenever
   the accessibility search obtained no tabs and a screenshot was supplied,
   in every state of the window, a handle gone stale since the capture
   included. *)
C3_FlagWheneverScreenshot ==
    (Resolved /\ obs.treeTabs = <<>> /\ obs.gbtArg = Image) => obs.gbt = <<USE_OCR>>

(* C4: Stage C (detect_text on the looser crop) is invoked only when Stage B
   accepted zero tabs; if Stage B accepted a tab, Stage C is not run and the
   returned tabs are Stage B's alone. *)
C4_StageCOnlyAfterEmptyStageB ==
    Extracted =>
        /\ (obs.ocr.ranC => obs.ocr.ranB /\ Len(obs.ocr.tabsB) = 0)
        /\ (Len(obs.ocr.tabsB) > 0 =>
               /\ ~obs.ocr.ranC
               /\ \A i \in DOMAIN result : result[i] = obs.ocr.tabsB[i])

C4_Witness ==
    /\ Extracted
    /\ Len(obs.ocr.tabsB) > 0
    /\ \E i \in DOMAIN ocrC : StageCAccepted(Strip(ocrC[i].text))
    /\ result = obs.ocr.tabsB

(* C5: the tabs Stage B accepts are in ascending x order and any two of them,
   consecutive or not, have x positions more than 30px apart. *)
AcceptedX(k) == obs.ocr.sortedB[obs.ocr.taken[k]].bbox[1]

C5_StageBSpacing ==
    Extracted =>
        \A i, j \in DOMAIN obs.ocr.taken :
            i < j => AcceptedX(j) - AcceptedX(i) > 30

C5_Witness ==
    /\ Extracted
    /\ Len(obs.ocr.taken) >= 3
    /\ Len(obs.ocr.taken) < Len(obs.ocr.sortedB)
    /\ \E i \in DOMAIN ocrB : i < Len(ocrB) /\ ocrB[i].bbox[1] > ocrB[i + 1].bbox[1]

(* C6, as claimed: over the detections in ascending x order, Stage B accepts
   a detection iff its text is non-empty, of length strictly between 2 and
   60, more than 30px right of the last accepted candidate, not in the stop
   set and not starting with http or www. *)
RuleHolds(text, x, earlier) ==
    /\ text # ""
    /\ Len(text) > 2 /\ Len(text) < 60
    /\ \A k \in earlier : x - obs.ocr.sortedB[k].bbox[1] > 30
    /\ text \notin {"×", "+", "...", "New Tab", "Google", "Chrome"}
    /\ ~StartsWith(text, "http")
    /\ ~StartsWith(text, "www")

TakenSet == {obs.ocr.taken[k] : k \in DOMAIN obs.ocr.taken}

LastTakenBefore(i) ==
    LET before == {k \in TakenSet : k < i}
    IN  IF before = {} THEN {} ELSE {CHOOSE k \in before : \A m \in before : m <= k}

C6_AcceptedIffRuleOnRawText ==
    (Extracted /\ obs.ocr.ranB) =>
        \A i \in DOMAIN obs.ocr.sortedB :
            i \in TakenSet <=>
                RuleHolds(obs.ocr.sortedB[i].text, obs.ocr.sortedB[i].bbox[1],
                          LastTakenBefore(i))

(* C6, amended: the same rule, applied to the detection's text with its
   leading and trailing whitespace stripped; the stripped text is the tab. *)
C6_AcceptedIffRuleOnStrippedText ==
    (Extracted /\ obs.ocr.ranB) =>
        /\ \A i \in DOMAIN obs.ocr.sortedB :
              i \in TakenSet <=>
                  RuleHolds(Strip(obs.ocr.sortedB[i].text), obs.ocr.sortedB[i].bbox[1],
                            LastTakenBefore(i))
        /\ Len(obs.ocr.tabsB) = Len(obs.ocr.taken)
        /\ \A k \in DOMAIN obs.ocr.taken :
              obs.ocr.tabsB[k] = Strip(obs.ocr.sortedB[obs.ocr.taken[k]].text)

C6_Witness ==
    /\ Extracted
    /\ obs.ocr.ranB
    /\ \E i \in TakenSet : obs.ocr.sortedB[i].text # Strip(obs.ocr.sortedB[i].text)
    /\ \E i \in DOMAIN obs.ocr.sortedB : i \notin TakenSet

(* C7: the tab list the OCR tab extraction returns never has more than 15
   entries, whichever stage produced it and however many detections the
   engine returned. *)
C7_AtMostFifteenTabs == Extracted => Len(result) <= 15

C7_Witness ==
    /\ Extracted
    /\ Len(obs.ocr.taken) > 15
    /\ Len(result) = 15

(* C8: analyze_window with an identifier that matches no window returns,
   without raising, an error result with no window metadata and no
   detections, whose available_windows lists the title of every catalogued
   window (visible, with a title), in catalogue order. *)
NoMatch(identifier) ==
    ~\E i \in DOMAIN desktop :
        desktop[i].visible /\ InStr(Lower(identifier), Lower(desktop[i].title))

CatalogueIndices == {i \in DOMAIN desktop : desktop[i].visible /\ desktop[i].title # ""}

NthCatalogued(n) ==
    CHOOSE i \in CatalogueIndices : Cardinality({j \in CatalogueIndices : j < i}) = n - 1

C8_NotFoundListsCatalogue ==
    (Analyzed /\ NoMatch(call.window_identifier)) =>
        /\ ~raised
        /\ DOMAIN result = {"error", "available_windows"}
        /\ Len(result["available_windows"]) = Cardinality(CatalogueIndices)
        /\ \A n \in 1..Cardinality(CatalogueIndices) :
              result["available_windows"][n] = desktop[NthCatalogued(n)].title

C8_Witness ==
    /\ Analyzed
    /\ NoMatch(call.window_identifier)
    /\ Len(result["available_windows"]) = 2
    /\ result["available_windows"][1] # result["available_windows"][2]

(* C9: once the identifier resolves to a window the result never carries a
   top-level error field, whatever fails afterwards; an empty tab outcome
   leaves browser_tabs absent. *)
C9_NoErrorAfterResolution ==
    Resolved =>
        /\ ~Has("error")
        /\ (obs.tabs = <<>> => ~raised /\ Has("window_info") /\ ~Has("browser_tabs"))

C9_Witness ==
    /\ Resolved
    /\ ~raised
    /\ "error" \in DOMAIN result["window_info"]
    /\ Has("screenshot_error")
    /\ Has("ui_elements") /\ result["ui_elements"] = <<>>
    /\ obs.tabs = <<>>

(* C10: when the capture is requested and the pixel source returns no image,
   the call returns a result with screenshot_error set and neither screenshot
   nor text_detections; text_detections is present only together with a
   screenshot. *)
C10_CaptureFailureIsData ==
    /\ (Resolved /\ call.options.capture_screenshot /\ obs.screenshot = None) =>
           /\ ~raised
           /\ Has("screenshot_error")
           /\ ~Has("screenshot")
           /\ ~Has("text_detections")
    /\ (Analyzed /\ Has("text_detections")) => Has("screenshot")

C10_Witness ==
    /\ Resolved
    /\ call.options.capture_screenshot
    /\ call.options.detect_text
    /\ obs.screenshot = None
    /\ call.env.staleFrom = Never
    /\ Has("browser_tabs")

(* C11: in analyze_window the features fail apart: whatever combination of
   text detection, UI-tree walk, tab extraction and handle fails after the
   window was resolved, the call returns a result, and every requested
   feature that did not itself fail is in it: ui_elements whenever the UI
   tree was requested, the screenshot and (if requested) text_detections
   whenever the capture succeeded. *)
C11_FeaturesFailApart ==
    Resolved =>
        /\ ~raised
        /\ Has("window_info")
        /\ (call.options.get_ui_tree => Has("ui_elements"))
        /\ (obs.screenshot = Image =>
               /\ Has("screenshot")
               /\ (call.options.detect_text => Has("text_detections")))

(* C12: get_window_summary and get_all_windows_summary tolerate a window that
   disappears between its resolution or enumeration and the later reads of
   its metadata: neither call ever raises. *)
Summarized == Done /\ call.op \in {"get_window_summary", "get_all_windows_summary"}

C12_SummariesNeverRaise == Summarized => ~raised

(* C13: when the pixel source fails to capture the requested monitor,
   analyze_full_screen returns a result that marks the capture as failed
   (an error field and no screenshot); no exception escapes the call. *)
ScreenAnalyzed == Done /\ call.op = "analyze_full_screen"

ScreenCaptureFailed == ~call.env.grabOk \/ call.monitor_num > call.env.monitors

C13_ScreenCaptureFailureIsData ==
    (ScreenAnalyzed /\ ScreenCaptureFailed) =>
        /\ ~raised
        /\ Has("screenshot_error") \/ Has("error")
        /\ ~Has("screenshot")

(* C14, as claimed: find_window returns the first window, in enumeration
   order, whose title contains the substring compared case-insensitively,
   and None exactly when no window's title contains it. *)
Found == Done /\ call.op = "find_window"

TitleContains(i) == InStr(Lower(call.title_substring), Lower(desktop[i].title))

FirstOf(indices) == IF indices = {} THEN NoHwnd ELSE desktop[MinOf(indices)].hwnd

C14_FirstWindowContaining ==
    Found => result = FirstOf({i \in DOMAIN desktop : TitleContains(i)})

(* C14, amended: the same, over the visible windows only: an invisible window
   is never returned and does not keep the call from returning None. *)
C14_FirstVisibleWindowContaining ==
    Found => result = FirstOf({i \in DOMAIN desktop : desktop[i].visible /\ TitleContains(i)})

C14_Witness ==
    /\ Found
    /\ result # NoHwnd
    /\ call.title_substring # Lower(call.title_substring)
    /\ \E i \in DOMAIN desktop :
          /\ desktop[i].hwnd < result
          /\ ~desktop[i].visible
          /\ TitleContains(i)

(* C15: get_all_windows and list_all_windows return one entry for each window
   that is visible and has a non-empty title, each once, in enumeration
   order, and none for an invisible or untitled window.  A window that
   closes during its own callback is left out by get_all_windows and is
   listed by list_all_windows as the error record of get_window_info. *)
Enumerated == Done /\ call.op \in {"get_all_windows", "list_all_windows"}

VisibleTitled == {i \in DOMAIN desktop : desktop[i].visible /\ desktop[i].title # ""}

NthOf(indices, n) ==
    CHOOSE i \in indices : Cardinality({j \in indices : j < i}) = n - 1

Describes(entry, w) == entry.hwnd = w.hwnd /\ entry.title = w.title /\ entry.bbox = w.bbox

C15_ListsVisibleTitledInOrder ==
    Enumerated =>
        LET closed(i) == desktop[i].hwnd \in call.gone
            listed == IF call.op = "get_all_windows"
                      THEN {i \in VisibleTitled : ~closed(i)}
                      ELSE VisibleTitled
        IN  /\ Len(result) = Cardinality(listed)
            /\ \A n \in 1..Cardinality(listed) :
                  IF closed(NthOf(listed, n))
                  THEN DOMAIN result[n] = {"error"}
                  ELSE Describes(result[n], desktop[NthOf(listed, n)])

C15_Witness ==
    /\ Enumerated
    /\ call.op = "get_all_windows"
    /\ call.gone = {}
    /\ Len(desktop) > Len(result)
    /\ Len(result) = 1
    /\ result[1].hwnd = desktop[Len(desktop)].hwnd

(* C16: find_window_by_content visits every catalogued window; a window whose
   capture or text detection fails is only left out, the scan goes on.  The
   result is exactly the catalogued windows that were captured and whose
   extracted visible text contains search_text compared case-insensitively,
   in catalogue order, each with that text. *)
Searched == Done /\ call.op = "find_window_by_content"

Captured(i) ==
    call.outcome[desktop[i].hwnd].alive /\ call.outcome[desktop[i].hwnd].grabOk

TextOf(i) ==
    extract_visible_text(detector, call.outcome[desktop[i].hwnd].image,
                         DefaultThreshold).value

C16_ContentScanIsComplete ==
    Searched =>
        LET hits == {i \in VisibleTitled :
                        Captured(i) /\ InStr(Lower(call.search_text), Lower(TextOf(i)))}
        IN  /\ Len(result) = Cardinality(hits)
            /\ \A n \in 1..Cardinality(hits) :
                  /\ result[n].window.hwnd = desktop[NthOf(hits, n)].hwnd
                  /\ result[n].matching_text = TextOf(NthOf(hits, n))

C16_Witness ==
    /\ Searched
    /\ call.search_text = "HELLO"
    /\ Len(result) = 1
    /\ \E i \in VisibleTitled : ~Captured(i) /\ desktop[i].hwnd < result[1].window.hwnd
    /\ result[1].matching_text = "Hello world"

(* C17: detect_text_in_region returns, for every detection found in the
   crop, the crop-local box with the region's left added to both x
   coordinates and the region's top added to both y coordinates, the offset
   applied once. *)
RegionRead == Done /\ call.op = "detect_text_in_region"

CropLocal == detect_text(detector, call.image).value

C17_RegionOffsetAddedOnce ==
    RegionRead =>
        /\ Len(result) = Len(CropLocal)
        /\ \A i \in DOMAIN CropLocal :
              /\ result[i].text = CropLocal[i].text
              /\ result[i].bbox[1] = CropLocal[i].bbox[1] + call.bbox[1]
              /\ result[i].bbox[2] = CropLocal[i].bbox[2] + call.bbox[2]
              /\ result[i].bbox[3] = CropLocal[i].bbox[3] + call.bbox[1]
              /\ result[i].bbox[4] = CropLocal[i].bbox[4] + call.bbox[2]

C17_Witness ==
    /\ RegionRead
    /\ Len(result) = 2
    /\ call.bbox[1] > 0 /\ call.bbox[2] > 0 /\ call.bbox[1] # call.bbox[2]
    /\ result[1].bbox # result[2].bbox

(* C18: extract_visible_text returns the texts of exactly the detections
   whose confidence is not below the threshold, in an order in which every
   consecutive pair has the first's top <= the second's, joined by single
   spaces; the empty string when no detection qualifies. *)
TextExtracted == Done /\ call.op = "extract_visible_text"

Detected == detect_text(detector, call.image).value

Qualifying == {i \in DOMAIN Detected : Detected[i].confidence >= call.confidence_threshold}

TopDown(order) ==
    /\ \A m, n \in DOMAIN order : m # n => order[m] # order[n]
    /\ \A n \in DOMAIN order :
          n < Len(order) => Detected[order[n]].bbox[2] <= Detected[order[n + 1]].bbox[2]

C18_ConfidentTextsTopDown ==
    TextExtracted =>
        /\ \E order \in [1..Cardinality(Qualifying) -> Qualifying] :
              /\ TopDown(order)
              /\ result = JoinTexts([n \in DOMAIN order |-> Detected[order[n]]])
        /\ (Qualifying = {} => result = "")

C18_Witness ==
    /\ TextExtracted
    /\ Cardinality(Qualifying) = 2
    /\ Detected[1].bbox[2] > Detected[2].bbox[2]
    /\ \E i \in Qualifying : Detected[i].confidence = call.confidence_threshold
    /\ result = "Hello world"

(* C20: when the recognition engine detect_text hands the image to raises,
   or was never initialised, detect_text returns the empty list,
   detect_text_in_region the empty list and extract_visible_text the empty
   string; no exception reaches the caller of any of the three. *)
TextCalled ==
    Done /\ call.op \in {"detect_text", "detect_text_in_region", "extract_visible_text"}

EngineFails ==
    \/ /\ Dispatch(detector) = "easyocr"
       /\ ~detector.easyocr_reader \/ call.image.easyocr.raises
    \/ /\ Dispatch(detector) = "tesseract"
       /\ ~detector.TESSERACT_AVAILABLE \/ call.image.tesseract.raises

C20_EngineFailureIsEmpty ==
    TextCalled =>
        /\ ~raised
        /\ EngineFails =>
               IF call.op = "extract_visible_text" THEN result = "" ELSE result = <<>>

C20_Witness ==
    /\ TextCalled
    /\ call.op = "detect_text_in_region"
    /\ Dispatch(detector) = "tesseract"
    /\ detector.TESSERACT_AVAILABLE
    /\ call.image.tesseract.raises
    /\ \E i \in DOMAIN call.image.tesseract.data : TessKept(call.image.tesseract.data[i])
    /\ ~raised
    /\ result = <<>>

(* C19: detect_ui_elements emits a region for a contour iff the area w*h of
   its bounding rectangle is at least 100, in contour order, and labels it
   with exactly one type: button iff 2 < w/h < 10 and h < 50, icon iff
   0.8 < w/h < 1.2, menu_bar iff w/h > 10, container in every other case
   (the ratios 2, 10, 0.8 and 1.2 themselves and 2 < w/h < 10 with h >= 50
   included). *)
RegionsDetected == Done /\ call.op = "detect_ui_elements" /\ call.cv2 /\ ~call.cvRaises

Emitted == {i \in DOMAIN call.contours : call.contours[i].w * call.contours[i].h >= 100}

IsButton(w, h) == 2 * h < w /\ w < 10 * h /\ h < 50
IsIcon(w, h) == 8 * h < 10 * w /\ 10 * w < 12 * h
IsMenuBar(w, h) == w > 10 * h

C19_RegionsByAreaAndRatio ==
    RegionsDetected =>
        /\ Len(result) = Cardinality(Emitted)
        /\ \A n \in 1..Cardinality(Emitted) :
              LET c == call.contours[NthOf(Emitted, n)] IN
              /\ result[n].bbox = <<c.x, c.y, c.x + c.w, c.y + c.h>>
              /\ result[n].type \in {"button", "icon", "menu_bar", "container"}
              /\ result[n].type = "button" <=> IsButton(c.w, c.h)
              /\ result[n].type = "icon" <=> IsIcon(c.w, c.h)
              /\ result[n].type = "menu_bar" <=> IsMenuBar(c.w, c.h)
              /\ result[n].type = "container" <=>
                     ~(IsButton(c.w, c.h) \/ IsIcon(c.w, c.h) \/ IsMenuBar(c.w, c.h))

C19_Witness ==
    /\ RegionsDetected
    /\ Len(call.contours) = 2
    /\ Len(result) = 1
    /\ \E i \in DOMAIN call.contours : call.contours[i].w * call.contours[i].h = 90
    /\ result[1].aspect_ratio[1] = 2 * result[1].aspect_ratio[2]
    /\ result[1].type = "container"

(* C21: with ocr_engine "both" the engine detect_text consults is fixed by
   whether the EasyOCR reader was built at construction, never by the image:
   a call invokes exactly one engine; with a reader it is EasyOCR, whose
   result is returned even when it is empty or the call failed, and
   Tesseract is not consulted; without a reader it is Tesseract alone. *)
BothCalled == Done /\ call.op = "detect_text" /\ detector.ocr_engine = "both"

C21_BothIsOneEngine ==
    BothCalled =>
        /\ Len(obs.engines) <= 1
        /\ detector.easyocr_reader =>
               /\ obs.engines = <<"easyocr">>
               /\ result = Catch(ReadText(call.image), <<>>).value
        /\ ~detector.easyocr_reader =>
               /\ \A i \in DOMAIN obs.engines : obs.engines[i] = "tesseract"
               /\ \A i \in DOMAIN result : result[i].engine = "tesseract"

C21_Witness ==
    /\ BothCalled
    /\ detector.easyocr_reader
    /\ detector.TESSERACT_AVAILABLE
    /\ call.image.easyocr.raises
    /\ ~call.image.tesseract.raises
    /\ \E i \in DOMAIN call.image.tesseract.data : TessKept(call.image.tesseract.data[i])
    /\ result = <<>>

TreeWalked == Done /\ call.op = "get_ui_tree"

EmittedVisits == {i \in DOMAIN obs.visits : obs.visits[i].emitted}

IsPrefix(p, q) == Len(p) <= Len(q) /\ SubSeq(q, 1, Len(p)) = p

MaxBranch(g) ==
    CHOOSE b \in 0..Len(g) :
        /\ \A i \in DOMAIN g : Len(g[i].children) <= b
        /\ \E i \in DOMAIN g : Len(g[i].children) = b

(* 1 + b + ... + b^d: the nodes of the full tree of depth d *)
RECURSIVE FullTree(_, _)
FullTree(b, d) == IF d = 0 THEN 1 ELSE 1 + b * FullTree(b, d - 1)

(* C22: get_ui_tree is depth-bounded.  The window's element is visited at
   depth 0 and each child one deeper than its parent (the depth is the length
   of the path walked to it), an emitted entry carries the depth of its visit,
   no entry is deeper than max_depth, a call deeper than max_depth neither
   emits nor reads the child list, and the walk ends after at most the calls of
   a full tree of depth max_depth + 1, on graphs with cycles too. *)
C22_DepthBounded ==
    TreeWalked =>
        /\ \A i \in DOMAIN obs.visits :
              /\ obs.visits[i].depth = Len(obs.visits[i].path)
              /\ obs.visits[i].depth > call.max_depth =>
                     ~obs.visits[i].emitted /\ ~obs.visits[i].expanded
        /\ obs.visits # <<>> => obs.visits[1].depth = 0 /\ obs.visits[1].node = 1
        /\ Len(result) = Cardinality(EmittedVisits)
        /\ \A k \in DOMAIN result :
              /\ result[k].depth = obs.visits[NthOf(EmittedVisits, k)].depth
              /\ result[k].depth <= call.max_depth
        /\ Len(obs.visits) <= FullTree(MaxBranch(uiaTree), call.max_depth + 1)

(* a graph with a cycle walked down to the bound: a node is met again below
   itself, and a call beyond the bound was turned back *)
C22_Witness ==
    /\ TreeWalked
    /\ call.max_depth = UiTreeDepth
    /\ \E i, j \in DOMAIN obs.visits :
          /\ obs.visits[i].node = obs.visits[j].node
          /\ obs.visits[i].path # obs.visits[j].path
          /\ IsPrefix(obs.visits[i].path, obs.visits[j].path)
    /\ \E i \in DOMAIN obs.visits : obs.visits[i].depth = UiTreeDepth + 1
    /\ \E k \in DOMAIN result : result[k].depth = UiTreeDepth

Readable(e) == uiaTree[e].fails = {}

(* p comes before q in depth-first pre-order: p is an ancestor of q, or p
   branches off to the left of q *)
PathBefore(p, q) ==
    /\ p # q
    /\ \/ IsPrefix(p, q)
       \/ \E k \in 1..Min(Len(p), Len(q)) :
             /\ SubSeq(p, 1, k - 1) = SubSeq(q, 1, k - 1)
             /\ p[k] < q[k]

PreOrder(visits) ==
    \A i, j \in DOMAIN visits : i < j => PathBefore(visits[i].path, visits[j].path)

(* C23: in get_ui_tree a readable node within the depth bound is emitted iff
   its name is non-empty or its control type is known; each child of a
   readable node within the bound is called in turn, whether or not the node
   was emitted, and is itself read when it lies within the bound; the calls
   are in depth-first pre-order and the entries are those of the emitting
   calls, in that order. *)
C23_EmitsNamedOrTypedInPreOrder ==
    TreeWalked =>
        /\ \A i \in DOMAIN obs.visits :
              LET v == obs.visits[i]
                  node == uiaTree[v.node]
              IN  (Readable(v.node) /\ v.depth <= call.max_depth) =>
                     /\ v.read
                     /\ v.emitted <=> (node.name # "" \/ node.control_type # "Unknown")
                     /\ \A k \in DOMAIN node.children :
                           \E j \in DOMAIN obs.visits :
                              /\ obs.visits[j].path = Append(v.path, k)
                              /\ obs.visits[j].node = node.children[k]
                              /\ obs.visits[j].depth = v.depth + 1
        /\ PreOrder(obs.visits)
        /\ Len(result) = Cardinality(EmittedVisits)
        /\ \A k \in DOMAIN result :
              LET node == uiaTree[obs.visits[NthOf(EmittedVisits, k)].node]
              IN  result[k].name = node.name /\ result[k].type = node.control_type

(* every node readable: an unnamed node of unknown type is passed over and
   its first child is emitted, among two entries or more *)
C23_Witness ==
    /\ TreeWalked
    /\ \A e \in DOMAIN uiaTree : Readable(e)
    /\ \E i, j \in DOMAIN obs.visits :
          /\ obs.visits[i].read /\ ~obs.visits[i].emitted
          /\ obs.visits[j].emitted
          /\ obs.visits[j].path = Append(obs.visits[i].path, 1)
    /\ Len(result) >= 2

Healthy(g) == [e \in DOMAIN g |-> [g[e] EXCEPT !.fails = {}]]

(* the calls the walk makes when no read of the window's graph fails *)
HealthyVisits == UiTreeWalk(uiaAvailable, call.alive, Healthy(uiaTree), call.max_depth).visits

(* the call at path lies in the subtree of a call on a node with a failing read *)
UnderFailure(path) ==
    \E i \in DOMAIN HealthyVisits :
       /\ IsPrefix(HealthyVisits[i].path, path)
       /\ ~Readable(HealthyVisits[i].node)

(* C24: in get_ui_tree a failing read of one node (its properties, its
   rectangle, its state or its child list) does not abort the walk: every call
   that emits when nothing fails, and lies outside the subtree of each call on
   a failing node, is made and emits the same node; get_ui_tree does not
   raise. *)
C24_FailureStaysInSubtree ==
    TreeWalked =>
        /\ ~raised
        /\ \A i \in DOMAIN HealthyVisits :
              (HealthyVisits[i].emitted /\ ~UnderFailure(HealthyVisits[i].path)) =>
                 \E j \in DOMAIN obs.visits :
                    /\ obs.visits[j].path = HealthyVisits[i].path
                    /\ obs.visits[j].node = HealthyVisits[i].node
                    /\ obs.visits[j].emitted

(* a node whose properties cannot be read has a later sibling, which is
   emitted *)
C24_Witness ==
    /\ TreeWalked
    /\ \E i, j \in DOMAIN obs.visits :
          /\ "info" \in uiaTree[obs.visits[i].node].fails
          /\ obs.visits[i].path # <<>>
          /\ ~obs.visits[i].read
          /\ i < j
          /\ Len(obs.visits[j].path) = Len(obs.visits[i].path)
          /\ SubSeq(obs.visits[j].path, 1, Len(obs.visits[j].path) - 1)
                = SubSeq(obs.visits[i].path, 1, Len(obs.visits[i].path) - 1)
          /\ obs.visits[j].emitted

TabsSearched == Done /\ call.op = "get_browser_tabs"

TabName(node) ==
    /\ InStr("tabitem", Lower(node.control_type))
    /\ node.name # ""
    /\ Len(node.name) > 3
    /\ ~StartsWith(node.name, "Active View")
    /\ ~StartsWith(node.name, "Tab content")

(* the calls on a node named as a tab whose name no earlier call has met *)
FirstTabVisits ==
    {i \in DOMAIN obs.visits :
        /\ obs.visits[i].read
        /\ TabName(uiaTree[obs.visits[i].node])
        /\ \A j \in 1..(i - 1) :
              (obs.visits[j].read /\ TabName(uiaTree[obs.visits[j].node]))
                 => uiaTree[obs.visits[j].node].name # uiaTree[obs.visits[i].node].name}

(* C25: the tab search reads no node deeper than 10 and reads the nodes in
   depth-first pre-order; it collects a node's name exactly when the
   lower-cased control type contains "tabitem" and the name is non-empty,
   longer than 3 characters, does not start with "Active View" or
   "Tab content" and was not collected before.  The list is the collected
   names in the order of the walk and holds no name twice. *)
C25_TabNamesOnceInWalkOrder ==
    TabsSearched =>
        /\ PreOrder(obs.visits)
        /\ \A i \in DOMAIN obs.visits :
              /\ obs.visits[i].read => obs.visits[i].depth <= 10
              /\ obs.visits[i].emitted <=> i \in FirstTabVisits
              /\ (Readable(obs.visits[i].node) /\ obs.visits[i].depth <= 10)
                    => obs.visits[i].read
        /\ Len(obs.tabs) = Cardinality(FirstTabVisits)
        /\ \A k \in DOMAIN obs.tabs :
              obs.tabs[k] = uiaTree[obs.visits[NthOf(FirstTabVisits, k)].node].name
        /\ \A k, l \in DOMAIN obs.tabs : k # l => obs.tabs[k] # obs.tabs[l]

(* the window of tab items with every kind of name: a name of 3 characters,
   the two prefixes, a button, the empty name and a repeated name are left
   out *)
C25_Witness ==
    /\ TabsSearched
    /\ Len(obs.visits) = 9
    /\ \A i \in DOMAIN obs.visits : obs.visits[i].read
    /\ \E i, j \in DOMAIN obs.visits :
          /\ i < j
          /\ uiaTree[obs.visits[i].node].name = "abcd"
          /\ uiaTree[obs.visits[j].node].name = "abcd"
    /\ \E i \in DOMAIN obs.visits : uiaTree[obs.visits[i].node].name = "Active View 1"
    /\ obs.tabs = <<"abcd", "Docs">>

(* the chain of 13 tab items is read down to depth 10 *)
C25_DeepWitness ==
    /\ TabsSearched
    /\ Len(obs.tabs) = 11
    /\ \E i \in DOMAIN obs.visits : obs.visits[i].depth = 11

WindowDescribed == Done /\ call.op = "get_window_info"

DescriptorKeys ==
    {"hwnd", "title", "class", "bbox", "pid", "process_name", "exe_path", "visible",
     "enabled"}

(* C26: get_window_info never raises.  For a handle the window calls reject
   it returns a record with the key error alone; otherwise it returns the
   descriptor with all nine keys, the window's own handle, title, class and
   rectangle, and for a process that cannot be read "Unknown" as both
   process_name and exe_path. *)
C26_ErrorRecordOrFullDescriptor ==
    WindowDescribed =>
        /\ ~raised
        /\ ~call.alive => DOMAIN result = {"error"}
        /\ call.alive =>
               LET w == WindowOf(desktop, call.hwnd)
               IN  /\ DOMAIN result = DescriptorKeys
                   /\ result.hwnd = call.hwnd
                   /\ result.title = w.title
                   /\ result.class = w.class
                   /\ result.bbox = w.bbox
                   /\ result.visible = w.visible
                   /\ ~call.procOk =>
                          result.process_name = "Unknown" /\ result.exe_path = "Unknown"
                   /\ call.procOk =>
                          result.process_name = w.process /\ result.exe_path = w.exe

(* a live window whose process cannot be read *)
C26_Witness ==
    /\ WindowDescribed
    /\ call.alive
    /\ ~call.procOk
    /\ result.title = "Notepad"
    /\ result.exe_path = "Unknown"

(* a handle the window calls reject *)
C26_StaleWitness == WindowDescribed /\ ~call.alive /\ call.hwnd # NoHwnd /\ "error" \in DOMAIN result

ActiveAnalyzed == Done /\ call.op = "analyze_active_window"

(* the foreground window was found and its properties were read *)
ForegroundDescribed == ~call.fg.raises /\ call.fg.alive

ForegroundTitle == WindowOf(desktop, call.fg.hwnd).title

(* C27: analyze_active_window returns the record {error: "No active window
   found"}, with nothing captured and no text detected, whenever the
   foreground window cannot be described or its title is empty; otherwise it
   returns, or raises, exactly as analyze_window does for the foreground
   window's title with the same options. *)
C27_ActiveIsAnalyzeWindowOfTitle ==
    ActiveAnalyzed =>
        IF ~ForegroundDescribed \/ ForegroundTitle = ""
        THEN /\ ~raised
             /\ result = ("error" :> "No active window found")
             /\ obs.screenshot = Unbound
             /\ ~obs.ocr.ran
        ELSE LET out == analyze_window(desktop, uiaAvailable, uiaTree, ocrFull, ocrB, ocrC,
                                       ForegroundTitle, call.options, call.env)
             IN  /\ result = out.result
                 /\ raised = out.raised

(* a described foreground window with a title, captured and read *)
C27_Witness ==
    /\ ActiveAnalyzed
    /\ ForegroundDescribed
    /\ ForegroundTitle = "Inbox - Chrome"
    /\ call.options.capture_screenshot
    /\ call.options.detect_text
    /\ ~raised
    /\ Has("window_info")
    /\ Has("text_detections")

(* a described foreground window without a title *)
C27_UntitledWitness ==
    /\ ActiveAnalyzed
    /\ ForegroundDescribed
    /\ call.fg.hwnd # NoHwnd
    /\ ForegroundTitle = ""
    /\ Has("error")

SummarizedAgain == Done /\ call.op = "get_window_summary again"

(* C28: the orchestrator keeps no state between calls.  A second
   get_window_summary of the same identifier, with the desktop and the
   collaborators' answers as they were, returns what the first returned (or
   raises as the first did), whether or not another analysis call was made in
   between. *)
C28_SummaryRepeats ==
    SummarizedAgain =>
        /\ raised = obs.first.raised
        /\ result = obs.first.result

(* an analysis call lay between two summaries of a window with tabs in its
   accessibility tree *)
C28_Witness ==
    /\ SummarizedAgain
    /\ call.between
    /\ ~raised
    /\ "browser_tabs" \in DOMAIN result
    /\ result.browser_tabs = <<"Inbox", "Docs">>

(* C29: every window find_window returns, for any substring, the empty one
   included, is one of the windows get_all_windows lists on the same
   desktop. *)
C29_FoundIsListed ==
    (Found /\ result # NoHwnd) =>
        \E i \in DOMAIN get_all_windows(desktop) : get_all_windows(desktop)[i].hwnd = result

(* C30: when analyze_active_window succeeds, the window_info of its result
   describes the foreground window itself: it carries the handle that
   GetForegroundWindow returned, whatever other windows the desktop holds and
   in whatever order they are enumerated. *)
C30_DescribesForeground ==
    (ActiveAnalyzed /\ ~raised /\ Has("window_info")
       /\ "hwnd" \in DOMAIN result["window_info"]) =>
        result["window_info"].hwnd = call.fg.hwnd

====
